---- MODULE Spec2Model ----
(***************************************************************************)
(* Model of the argument parser of QPixel/framework (arguments.go, util.go *)
(* consts.go).                                                             *)
(*                                                                         *)
(* A Go string is a sequence of one-character strings, a []string is a     *)
(* sequence of such sequences, and an Arguments map is a function from the *)
(* bound keys to their values.  A Go panic is a result whose panic field   *)
(* is TRUE.  Slice indexes keep Go's 0-based numbering; only the access to *)
(* a TLA+ sequence adds one.                                               *)
(***************************************************************************)
EXTENDS Integers, Sequences, FiniteSets, TLC

VARIABLES infoArgs, fullArgs, pc, ret, ret2,
          splitArg, splitOut, agValue, agResult,
          session, dispatches, commandsGC, accessed,
          removeArgs, removeRet,
          extractArgs, extractRet,
          handling, botAdmins,
          cmdInfo, registry, delivery,
          guild, discord, lastCall,
          saveLock, mutexes, savers,
          continueLoop, workerLock, workers, shutdown

\* the state of a command and of its dispatch
parserVars == <<infoArgs, fullArgs, pc, ret, ret2>>

\* the argument and the result of a call of the tokenizer
splitVars == <<splitArg, splitOut>>

\* the receiver and the result of a call of an accessor
accessorVars == <<agValue, agResult>>

\* the state of the rest of the framework: the session an entity accessor is
\* given; the dispatches under way, the counter commandsGC and the accesses
\* the dispatches made to what they share; the arguments and the result of a
\* RemoveItems call; the arguments and the result of an ExtractCommand call;
\* the dispatch whose panic handleCommandError is to recover, and the bot
\* admins; the CommandInfo of a command, the maps commands and commandAliases,
\* and the message commandHandler is given; the lists of a guild, what Discord
\* knows of the guild, and the last call on the guild with its outcome; the
\* entry of saveLock for a guild, the mutexes made for it, and the goroutines
\* that save the guild; the flag continueLoop, the mutexes of the background
\* workers, the workers and the goroutine that waits for them
otherVars == <<session, dispatches, commandsGC, accessed,
              removeArgs, removeRet,
              extractArgs, extractRet,
              handling, botAdmins,
              cmdInfo, registry, delivery,
              guild, discord, lastCall,
              saveLock, mutexes, savers,
              continueLoop, workerLock, workers, shutdown>>

vars == <<infoArgs, fullArgs, pc, ret, ret2, splitArg, splitOut, agValue, agResult,
          session, dispatches, commandsGC, accessed,
          removeArgs, removeRet,
          extractArgs, extractRet,
          handling, botAdmins,
          cmdInfo, registry, delivery,
          guild, discord, lastCall,
          saveLock, mutexes, savers,
          continueLoop, workerLock, workers, shutdown>>

\* the parts of the framework outside the set S of variable names are at rest
Others(S) ==
    /\ IF "session" \in S THEN TRUE ELSE session = [isNil |-> TRUE]
    /\ IF "dispatches" \in S THEN TRUE
       ELSE dispatches = <<>> /\ commandsGC = 0 /\ accessed = <<>>
    /\ IF "remove" \in S THEN TRUE
       ELSE removeArgs = <<>> /\ removeRet = <<>>
    /\ IF "extract" \in S THEN TRUE
       ELSE extractArgs = <<>> /\ extractRet = <<>>
    /\ IF "handling" \in S THEN TRUE
       ELSE handling = <<>> /\ botAdmins = {}
    /\ IF "dispatch" \in S THEN TRUE
       ELSE cmdInfo = <<>> /\ registry = <<>> /\ delivery = <<>>
    /\ IF "guild" \in S THEN TRUE
       ELSE guild = <<>> /\ discord = <<>> /\ lastCall = <<>>
    /\ IF "save" \in S THEN TRUE
       ELSE saveLock = <<>> /\ mutexes = <<>> /\ savers = <<>>
    /\ IF "workers" \in S THEN TRUE
       ELSE continueLoop = TRUE /\ workerLock = <<>> /\ workers = <<>> /\ shutdown = <<>>

\* the parts of the framework outside S stay as they are
Frame(S) ==
    /\ IF "session" \in S THEN TRUE ELSE UNCHANGED session
    /\ IF "dispatches" \in S THEN TRUE ELSE UNCHANGED <<dispatches, commandsGC, accessed>>
    /\ IF "remove" \in S THEN TRUE ELSE UNCHANGED <<removeArgs, removeRet>>
    /\ IF "extract" \in S THEN TRUE ELSE UNCHANGED <<extractArgs, extractRet>>
    /\ IF "handling" \in S THEN TRUE ELSE UNCHANGED <<handling, botAdmins>>
    /\ IF "dispatch" \in S THEN TRUE ELSE UNCHANGED <<cmdInfo, registry, delivery>>
    /\ IF "guild" \in S THEN TRUE ELSE UNCHANGED <<guild, discord, lastCall>>
    /\ IF "save" \in S THEN TRUE ELSE UNCHANGED <<saveLock, mutexes, savers>>
    /\ IF "workers" \in S THEN TRUE ELSE UNCHANGED <<continueLoop, workerLock, workers, shutdown>>

\* ---------------------------------------------------------------- bounds
\* largest number of arguments a command registers
MaxKeys == 3
\* largest number of space-separated words of an invocation string
MaxWords == 3

\* ------------------------------------------------------- Go string helpers
SP == " "
QT == "\""

\* strings.HasSuffix(s, suffix)
HasSuffix(s, suffix) ==
    /\ Len(suffix) <= Len(s)
    /\ SubSeq(s, Len(s) - Len(suffix) + 1, Len(s)) = suffix

\* strings.TrimSuffix(s, suffix)
TrimSuffix(s, suffix) ==
    IF HasSuffix(s, suffix) THEN SubSeq(s, 1, Len(s) - Len(suffix)) ELSE s

\* strings.TrimPrefix-like loop of strings.Trim: drop every leading c
RECURSIVE TrimLeft(_, _)
TrimLeft(s, c) ==
    IF s # <<>> /\ Head(s) = c THEN TrimLeft(Tail(s), c) ELSE s

\* drop every trailing c
RECURSIVE TrimRight(_, _)
TrimRight(s, c) ==
    IF s # <<>> /\ s[Len(s)] = c THEN TrimRight(SubSeq(s, 1, Len(s) - 1), c) ELSE s

\* strings.Trim(s, cutset) for a one-character cutset
Trim(s, c) == TrimRight(TrimLeft(s, c), c)

\* strings.Contains(s, c) for a one-character c
Contains(s, c) == \E i \in 1..Len(s) : s[i] = c

\* strings.Join(elems, sep)
RECURSIVE Join(_, _)
Join(elems, sep) ==
    IF elems = <<>> THEN <<>>
    ELSE IF Len(elems) = 1 THEN elems[1]
    ELSE elems[1] \o sep \o Join(Tail(elems), sep)

\* strings.SplitAfter(s, " "): cut after every space, keep the space
RECURSIVE SplitAfter(_)
SplitAfter(s) ==
    IF \E i \in 1..Len(s) : s[i] = SP
    THEN LET i == CHOOSE j \in 1..Len(s) :
                     s[j] = SP /\ \A k \in 1..(j - 1) : s[k] # SP
         IN  <<SubSeq(s, 1, i)>> \o SplitAfter(SubSeq(s, i + 1, Len(s)))
    ELSE <<s>>

\* position (1-based) of the leftmost occurrence of pat in s, 0 when none
IndexOf(s, pat) ==
    LET hits == {i \in 1..(Len(s) - Len(pat) + 1) : SubSeq(s, i, i + Len(pat) - 1) = pat}
    IN  IF hits = {} THEN 0 ELSE CHOOSE i \in hits : \A j \in hits : i <= j

\* the letters a-z and A-Z
Letters ==
    {"a", "b", "c", "d", "e", "f", "g", "h", "i", "j", "k", "l", "m",
     "n", "o", "p", "q", "r", "s", "t", "u", "v", "w", "x", "y", "z",
     "A", "B", "C", "D", "E", "F", "G", "H", "I", "J", "K", "L", "M",
     "N", "O", "P", "Q", "R", "S", "T", "U", "V", "W", "X", "Y", "Z"}

\* the class [a-zA-Z0-9:/.] of the pattern of a value flag
ValueChars ==
    Letters \cup {"0", "1", "2", "3", "4", "5", "6", "7", "8", "9"} \cup {":", "/", "."}

\* the group AddFlagArg appends to "--flag " for a value flag; a compiled
\* pattern is its literal text, followed by this group for a value flag
ValuePattern == "(([a-zA-Z0-9:/.]+)|(\"[a-zA-Z0-9:/. ]+\"))"

\* end (1-based, inclusive) of the longest run of characters of class that
\* starts at position i of s; i - 1 when s[i] is not in class
RECURSIVE ClassEnd(_, _, _)
ClassEnd(s, i, class) ==
    IF i <= Len(s) /\ s[i] \in class THEN ClassEnd(s, i + 1, class) ELSE i - 1

\* end of quoted alternative "[a-zA-Z0-9:/. ]+" whose opening quote is at
\* position i of s and whose run of class characters ends at e; 0 when the run
\* is empty or no quote closes it
QuotedValueEnd(s, i, e) ==
    IF e >= i + 1 /\ e + 1 <= Len(s) /\ s[e + 1] = QT THEN e + 1 ELSE 0

\* end of the match of ValuePattern at position i of s, 0 when there is none:
\* the bare alternative is tried first
ValueEndAt(s, i) ==
    IF i > Len(s) THEN 0
    ELSE IF s[i] \in ValueChars THEN ClassEnd(s, i, ValueChars)
    ELSE IF s[i] = QT THEN QuotedValueEnd(s, i, ClassEnd(s, i + 1, ValueChars \cup {SP}))
    ELSE 0

\* pat is the pattern of a value flag
IsValuePattern(pat) == pat # <<>> /\ pat[Len(pat)] = ValuePattern

\* the literal text a compiled flag pattern starts with
Literal(pat) == IF IsValuePattern(pat) THEN SubSeq(pat, 1, Len(pat) - 1) ELSE pat

\* end of the match of the flag pattern pat at position i of s, 0 when none
PatternEndAt(pat, s, i) ==
    IF i + Len(Literal(pat)) - 1 > Len(s) THEN 0
    ELSE IF SubSeq(s, i, i + Len(Literal(pat)) - 1) # Literal(pat) THEN 0
    ELSE IF IsValuePattern(pat) THEN ValueEndAt(s, i + Len(Literal(pat)))
    ELSE i + Len(Literal(pat)) - 1

\* position (1-based) of the leftmost match of the flag pattern pat in s, 0
\* when there is none
FindIndex(s, pat) ==
    LET hits == {i \in 1..Len(s) : PatternEndAt(pat, s, i) # 0}
    IN  IF hits = {} THEN 0 ELSE CHOOSE i \in hits : \A j \in hits : i <= j

\* the text of the leftmost match of pat in s (Match.String())
MatchText(s, pat) ==
    SubSeq(s, FindIndex(s, pat), PatternEndAt(pat, s, FindIndex(s, pat)))

\* strings.SplitN(s, " ", 2)[1]: what follows the first space of s
AfterFirstSpace(s) == SubSeq(s, IndexOf(s, <<SP>>) + 1, Len(s))

\* a Replace whose result is dropped: the string is left as it was
ReplaceNothing(s, pat) == s

\* Regexp.Replace(s, "", -1, -1) for a flag pattern: every non-overlapping
\* match, found left to right in s, is deleted
RECURSIVE ReplaceAll(_, _)
ReplaceAll(s, pat) ==
    LET i == FindIndex(s, pat)
    IN  IF i = 0 THEN s
        ELSE SubSeq(s, 1, i - 1)
             \o ReplaceAll(SubSeq(s, PatternEndAt(pat, s, i) + 1, Len(s)), pat)

\* ------------------------------------------------------------- util.go
\* RemoveItem: the elements of slice that differ from delete, in order
RemoveItem(slice, delete) == SelectSeq(slice, LAMBDA elem : elem # delete)

\* one round of the loop of RemoveItems on newSlice for the 0-based index v0:
\* the index is lowered by one when it is neither 0 nor the last position,
\* then the element at that index is cut out; newSlice[v+1:] panics when
\* v+1 exceeds the length
RemoveItemsStep(acc, v0) ==
    IF acc.panic THEN acc
    ELSE LET newSlice == acc.slice
             v == IF Len(newSlice) > v0 + 1 /\ v0 # 0 THEN v0 - 1 ELSE v0
         IN  IF v + 1 > Len(newSlice)
             THEN [acc EXCEPT !.panic = TRUE]
             ELSE [acc EXCEPT !.slice = SubSeq(newSlice, 1, v) \o SubSeq(newSlice, v + 2, Len(newSlice))]

RECURSIVE RemoveItemsLoop(_, _)
RemoveItemsLoop(acc, indexes) ==
    IF indexes = <<>> THEN acc
    ELSE RemoveItemsLoop(RemoveItemsStep(acc, Head(indexes)), Tail(indexes))

\* RemoveItems without make and copy (newSlice := slice): the caller's slice
\* is shifted in place and ends in empty strings
RemoveItemsInPlace(slice, indexes) ==
    IF Len(indexes) >= Len(slice)
    THEN [panic |-> FALSE, slice |-> [i \in 1..Len(slice) |-> ""], src |-> slice]
    ELSE LET r == RemoveItemsLoop([panic |-> FALSE, slice |-> slice, src |-> slice], indexes)
         IN  [r EXCEPT !.src = r.slice \o [i \in 1..(Len(slice) - Len(r.slice)) |-> ""]]

\* RemoveItems(slice, indexes): [panic, slice, src].  slice is the value
\* returned, src the caller's slice after the call: newSlice is made and
\* filled by copy, so the caller's slice is not written.  With at least as
\* many indexes as elements the result is make([]string, len(slice)): that
\* many empty strings.  An empty string is written "" for a key.
RemoveItems(slice, indexes) ==
    IF Len(indexes) >= Len(slice)
    THEN [panic |-> FALSE, slice |-> [i \in 1..Len(slice) |-> ""], src |-> slice]
    ELSE RemoveItemsLoop([panic |-> FALSE, slice |-> slice, src |-> slice], indexes)

\* ------------------------------------------------------------ consts.go
Digits == {"0", "1", "2", "3", "4", "5", "6", "7", "8", "9"}

\* a *regexp2.Regexp that is nil: the value a Go map yields for a missing key
NilRegexp == "nil"

\* MentionStringRegexes: key -> compiled pattern (named by its key)
MentionStringRegexes ==
    [k \in {"all", "role", "user", "channel", "id"} |-> k]

\* TypeGuard = regex{}: no key is defined
TypeGuard == [k \in {} |-> NilRegexp]

\* m[key] of a Go map of pointers
Lookup(m, key) == IF key \in DOMAIN m THEN m[key] ELSE NilRegexp

\* number of digits the "id" pattern ^[0-9]{18}$ asks for
IdLen == 18

\* end (1-based, inclusive) of the run of digits of s that starts at i;
\* i - 1 when s[i] is no digit
RECURSIVE DigitsEnd(_, _)
DigitsEnd(s, i) ==
    IF i <= Len(s) /\ s[i] \in Digits THEN DigitsEnd(s, i + 1) ELSE i - 1

\* end of a match of <lead opt? \d+> that starts at position i of s, 0 when
\* there is none.  lead is the mandatory sigil ("" or "@"), opt the optional one
MentionEndAt(s, i, lead, opt) ==
    IF ~(i <= Len(s) /\ s[i] = "<") THEN 0
    ELSE LET a == i + 1
             leadOk == lead = <<>> \/ (a <= Len(s) /\ s[a] = lead[1])
             b == a + Len(lead)
             tryAt(d) == LET e == DigitsEnd(s, d)
                         IN  IF e >= d /\ e + 1 <= Len(s) /\ s[e + 1] = ">"
                             THEN e + 1 ELSE 0
             withOpt == IF b <= Len(s) /\ s[b] = opt THEN tryAt(b + 1) ELSE 0
         IN  IF ~leadOk THEN 0
             ELSE IF withOpt # 0 THEN withOpt ELSE tryAt(b)

\* end of a match of the pattern re at position i of s, 0 when there is none
MatchEndAt(re, s, i) ==
    CASE re = "channel" -> MentionEndAt(s, i, <<>>, "#")
      [] re = "user"    -> MentionEndAt(s, i, <<"@">>, "!")
      [] re = "role"    -> MentionEndAt(s, i, <<"@">>, "&")
      [] re = "id"      -> IF i = 1 /\ Len(s) = IdLen /\ \A j \in 1..Len(s) : s[j] \in Digits
                           THEN Len(s) ELSE 0
      [] OTHER          -> 0

\* re.FindStringMatch(s): [panic, found, match].  A nil receiver panics; the
\* match is the leftmost one
FindStringMatch(re, s) ==
    IF re = NilRegexp THEN [panic |-> TRUE, found |-> FALSE, match |-> <<>>]
    ELSE LET hits == {i \in 1..Len(s) : MatchEndAt(re, s, i) # 0}
         IN  IF hits = {} THEN [panic |-> FALSE, found |-> FALSE, match |-> <<>>]
             ELSE LET i == CHOOSE h \in hits : \A j \in hits : h <= j
                  IN  [panic |-> FALSE, found |-> TRUE,
                       match |-> SubSeq(s, i, MatchEndAt(re, s, i))]

\* --------------------------------------------------- arguments.go: types
ArgOption == "option"
ArgContent == "content"
ArgFlag == "flag"

\* the type guard Int (the name Int is taken by the integers)
IntGuard == "int"
String == "string"
Channel == "channel"
User == "user"
Role == "role"
Boolean == "bool"

\* --------------------------------------------- arguments.go: tokenizer
\* the loop of createSplitString over splitStr from element i on
RECURSIVE createSplitLoop(_, _, _, _, _)
createSplitLoop(splitStr, i, newSplitStr, quotedStringBuffer, isQuotedString) ==
    IF i > Len(splitStr) THEN newSplitStr
    ELSE LET v == splitStr[i]
         IN  IF v = <<>> \/ v = <<SP>>
             THEN createSplitLoop(splitStr, i + 1, newSplitStr, quotedStringBuffer, isQuotedString)
             ELSE IF Contains(v, QT) \/ isQuotedString
             THEN IF HasSuffix(Trim(v, SP), <<QT>>)
                  THEN LET buf == TrimSuffix(Trim(quotedStringBuffer \o Trim(v, SP), QT), <<SP>>)
                       IN  createSplitLoop(splitStr, i + 1, Append(newSplitStr, buf), <<>>, FALSE)
                  ELSE createSplitLoop(splitStr, i + 1, newSplitStr, quotedStringBuffer \o v, TRUE)
             ELSE createSplitLoop(splitStr, i + 1, Append(newSplitStr, TrimSuffix(v, <<SP>>)),
                                  quotedStringBuffer, isQuotedString)

\* a tokenizer that keeps the space SplitAfter leaves at the end of a word
createSplitStringUntrimmed(argString) ==
    SelectSeq(SplitAfter(argString), LAMBDA v : v # <<>> /\ v # <<SP>>)

\* createSplitString(argString): the tokens of argString
createSplitString(argString) ==
    createSplitLoop(SplitAfter(argString), 1, <<>>, <<>>, FALSE)

\* the loop of createContentString: every token followed by a space
RECURSIVE createContentLoop(_)
createContentLoop(ts) ==
    IF ts = <<>> THEN <<>> ELSE ts[1] \o <<SP>> \o createContentLoop(Tail(ts))

\* createContentString(splitString, currentPos): the tokens from currentPos on,
\* each followed by a space, less one trailing space
createContentString(splitString, currentPos) ==
    TrimSuffix(createContentLoop(SubSeq(splitString, currentPos + 1, Len(splitString))), <<SP>>)

\* ------------------------------------------------ arguments.go: parser
\* infoArgs is the ordered map of a command: keys is its key list, values
\* maps a key to its ArgInfo.  infoArgs.Get(k) succeeds iff HasKey
HasKey(info, k) == k \in DOMAIN info.values

\* ar[k] = CommandArg{info, Value: val}; the info stored is that of key k
Bind(ar, k, val) ==
    [n \in (DOMAIN ar) \cup {k} |-> IF n = k THEN val ELSE ar[n]]

\* handleArgOption(str, info): the value stored is str
handleArgOption(str) == str

\* strconv.Atoi(str) succeeds: an optional sign and one or more digits (the
\* strings here are too short to leave the range of int)
AtoiOk(str) ==
    LET d == IF str # <<>> /\ str[1] \in {"+", "-"} THEN Tail(str) ELSE str
    IN  d # <<>> /\ \A i \in 1..Len(d) : d[i] \in Digits

\* the strings strconv.ParseBool takes for true and for false
BoolTrue == {<<"1">>, <<"t">>, <<"T">>, <<"T", "R", "U", "E">>,
             <<"t", "r", "u", "e">>, <<"T", "r", "u", "e">>}
BoolFalse == {<<"0">>, <<"f">>, <<"F">>, <<"F", "A", "L", "S", "E">>,
              <<"f", "a", "l", "s", "e">>, <<"F", "a", "l", "s", "e">>}

\* checkTypeGuard(str, typeguard): String takes every value, Int what Atoi
\* takes, Boolean what ParseBool takes, a mention guard what its mention
\* pattern or the id pattern matches
checkTypeGuard(str, typeguard) ==
    CASE typeguard = String   -> TRUE
      [] typeguard = IntGuard -> AtoiOk(str)
      [] typeguard = Boolean  -> str \in BoolTrue \cup BoolFalse
      [] typeguard \in {Channel, Role, User} ->
             \/ FindStringMatch(Lookup(MentionStringRegexes, typeguard), str).found
             \/ FindStringMatch(Lookup(MentionStringRegexes, "id"), str).found
      [] OTHER                -> FALSE

\* the regex keys findTypeGuard tries, in order, for a type guard
GuardRegexes(typeguard) ==
    CASE typeguard = IntGuard -> <<Lookup(TypeGuard, "int")>>
      [] typeguard = Boolean  -> <<Lookup(TypeGuard, "boolean")>>
      [] typeguard = Channel  -> <<Lookup(MentionStringRegexes, "channel"),
                                   Lookup(MentionStringRegexes, "id")>>
      [] typeguard = Role     -> <<Lookup(MentionStringRegexes, "role"),
                                   Lookup(MentionStringRegexes, "id")>>
      [] typeguard = User     -> <<Lookup(MentionStringRegexes, "user"),
                                   Lookup(MentionStringRegexes, "id")>>
      [] OTHER                -> <<>>

\* findTypeGuard(input, array, typeguard): [panic, value, array].  The first
\* pattern that matches input gives the value, and every element of array
\* equal to the match is removed; with no match the value is "" and array
\* is returned as it is
RECURSIVE findTypeGuardTry(_, _, _)
findTypeGuardTry(input, array, res) ==
    IF res = <<>> THEN [panic |-> FALSE, value |-> <<>>, array |-> array]
    ELSE LET m == FindStringMatch(Head(res), input)
         IN  IF m.panic THEN [panic |-> TRUE, value |-> <<>>, array |-> array]
             ELSE IF m.found
             THEN [panic |-> FALSE, value |-> m.match, array |-> RemoveItem(array, m.match)]
             ELSE findTypeGuardTry(input, array, Tail(res))

findTypeGuard(input, array, typeguard) ==
    findTypeGuardTry(input, array, GuardRegexes(typeguard))

\* the binding findAllFlags makes for the flag a whose pattern matched the
\* text match: a value flag gets the text after the first space, less the
\* quotes around it, when its type guard takes it, and nothing otherwise; a
\* switch flag gets "true"
flagValue(args, a, vv, match) ==
    IF vv.Match = ArgOption
    THEN IF checkTypeGuard(Trim(AfterFirstSpace(match), QT), vv.TypeGuard)
         THEN Bind(args, a, handleArgOption(Trim(AfterFirstSpace(match), QT)))
         ELSE args
    ELSE IF vv.Match = ArgFlag THEN Bind(args, a, <<"t", "r", "u", "e">>)
    ELSE args

\* the loop of findAllFlags from the 0-based index on;
\* st = [panic, args, mod, indexes].  infoArgs.Get of a key that is not in the
\* map yields nil, and the type assertion v.(*ArgInfo) on it panics
RECURSIVE findAllFlagsLoop(_, _, _, _, _)
findAllFlagsLoop(argString, keys, info, st, index) ==
    IF index >= Len(keys) THEN st
    ELSE LET a == keys[index + 1]
             vv == info.values[a]
         IN  IF ~HasKey(info, a) THEN [st EXCEPT !.panic = TRUE]
             ELSE IF ~vv.Flag
             THEN findAllFlagsLoop(argString, keys, info, st, index + 1)
             ELSE IF FindIndex(argString, vv.Regex) = 0
             THEN findAllFlagsLoop(argString, keys, info,
                      [st EXCEPT !.args = Bind(@, a, IF vv.Match = ArgOption
                                                     THEN handleArgOption(vv.DefaultOption)
                                                     ELSE <<"f", "a", "l", "s", "e">>),
                                 !.indexes = Append(@, index)],
                      index + 1)
             ELSE findAllFlagsLoop(argString, keys, info,
                      [st EXCEPT !.args = flagValue(@, a, vv, MatchText(argString, vv.Regex)),
                                 !.mod = ReplaceAll(@, vv.Regex),
                                 !.indexes = Append(@, index)],
                      index + 1)

\* the end of findAllFlags, after its loop: st is what the loop left, rm the
\* result of RemoveItems(keys, indexes) and splitString the tokens of the
\* modified argument string
findAllFlagsReturn(keys, st, rm, splitString) ==
    IF st.panic
    THEN [panic |-> TRUE, splitString |-> <<>>, args |-> st.args,
          keys |-> keys, same |-> TRUE, src |-> keys]
    ELSE IF Len(st.indexes) = 0
    THEN [panic |-> FALSE, splitString |-> splitString,
          args |-> st.args, keys |-> keys, same |-> TRUE, src |-> keys]
    ELSE IF Len(st.indexes) = Len(keys)
    THEN [panic |-> FALSE, splitString |-> <<>>, args |-> st.args,
          keys |-> keys, same |-> TRUE, src |-> keys]
    ELSE IF rm.panic
    THEN [panic |-> TRUE, splitString |-> <<>>, args |-> st.args,
          keys |-> keys, same |-> TRUE, src |-> rm.src]
    ELSE IF Len(rm.slice) = 0
    THEN [panic |-> FALSE, splitString |-> splitString,
          args |-> st.args, keys |-> rm.src, same |-> TRUE, src |-> rm.src]
    ELSE [panic |-> FALSE, splitString |-> splitString,
          args |-> st.args, keys |-> rm.slice, same |-> FALSE, src |-> rm.src]

\* findAllFlags after its loop has left st: the modified argument string is
\* the input itself when every character of it was replaced away
findAllFlagsAfterLoop(argString, keys, st) ==
    findAllFlagsReturn(keys, st, RemoveItems(keys, st.indexes),
                       createSplitString(IF st.mod = <<>> THEN argString ELSE st.mod))

\* findAllFlags(argString, keys, infoArgs, args):
\* [panic, splitString, args, keys, same, src].  same tells that the keys
\* returned are the slice that was passed in, src is that slice after the call
findAllFlags(argString, keys, info, args) ==
    findAllFlagsAfterLoop(argString, keys,
        findAllFlagsLoop(argString, keys, info,
                         [panic |-> FALSE, args |-> args, mod |-> argString,
                          indexes |-> <<>>], 0))

\* the typed branch of both loops of findAllOptionArgs for key v at index i:
\* r is what findTypeGuard returned; its value is bound, be it empty or not
bindTypeGuard(st, v, i, r) ==
    IF r.panic THEN [st EXCEPT !.exit = "panic"]
    ELSE [st EXCEPT !.args = Bind(@, v, handleArgOption(r.value)),
                    !.argString = r.array,
                    !.indexes = Append(@, i)]

\* the first loop of findAllOptionArgs (required keys) from the 0-based index
\* i on; st = [args, argString, currentPos, indexes, reports, exit].  exit is
\* "content" when a Content key is reached, "panic" when an index is out of
\* range or a nil pattern is used, "end" when the loop breaks or finishes
RECURSIVE requiredLoop(_, _, _, _)
requiredLoop(keys, info, st, i) ==
    IF st.exit = "panic" THEN st
    ELSE IF i >= Len(keys) THEN [st EXCEPT !.exit = "end"]
    ELSE LET v == keys[i + 1]
         IN  IF ~HasKey(info, v)
             THEN requiredLoop(keys, info, [st EXCEPT !.reports = @ + 1], i + 1)
             ELSE LET vv == info.values[v]
                  IN  IF vv.Match = ArgContent THEN [st EXCEPT !.exit = "content"]
                      ELSE IF ~vv.Required THEN [st EXCEPT !.exit = "end"]
                      ELSE IF vv.TypeGuard # String
                      THEN requiredLoop(keys, info,
                               bindTypeGuard(st, v, i,
                                   findTypeGuard(Join(st.argString, <<SP>>), st.argString, vv.TypeGuard)),
                               i + 1)
                      ELSE IF st.currentPos >= Len(st.argString)
                      THEN [st EXCEPT !.exit = "panic"]
                      ELSE IF checkTypeGuard(st.argString[st.currentPos + 1], vv.TypeGuard)
                      THEN requiredLoop(keys, info,
                               [st EXCEPT !.args = Bind(@, v, handleArgOption(st.argString[st.currentPos + 1])),
                                          !.currentPos = @ + 1,
                                          !.indexes = Append(@, i)],
                               i + 1)
                      ELSE requiredLoop(keys, info,
                               [st EXCEPT !.args = Bind(@, v, handleArgOption(vv.DefaultOption)),
                                          !.indexes = Append(@, i)],
                               i + 1)

\* the second loop of findAllOptionArgs (optional keys) over modKeys
RECURSIVE optionalLoop(_, _, _, _)
optionalLoop(modKeys, info, st, i) ==
    IF st.exit = "panic" THEN st
    ELSE IF i >= Len(modKeys) THEN [st EXCEPT !.exit = "end"]
    ELSE LET v == modKeys[i + 1]
         IN  IF ~HasKey(info, v)
             THEN optionalLoop(modKeys, info, [st EXCEPT !.reports = @ + 1], i + 1)
             ELSE LET vv == info.values[v]
                  IN  IF vv.Required THEN [st EXCEPT !.reports = @ + 1, !.exit = "end"]
                      ELSE IF vv.Match = ArgContent THEN [st EXCEPT !.exit = "content"]
                      ELSE IF st.currentPos = Len(st.argString) THEN [st EXCEPT !.exit = "end"]
                      ELSE IF vv.TypeGuard # String
                      THEN optionalLoop(modKeys, info,
                               bindTypeGuard(st, v, i,
                                   findTypeGuard(Join(st.argString, <<SP>>), st.argString, vv.TypeGuard)),
                               i + 1)
                      ELSE IF st.currentPos >= Len(st.argString)
                      THEN [st EXCEPT !.exit = "panic"]
                      ELSE IF checkTypeGuard(st.argString[st.currentPos + 1], vv.TypeGuard)
                      THEN optionalLoop(modKeys, info,
                               [st EXCEPT !.args = Bind(@, v, handleArgOption(st.argString[st.currentPos + 1])),
                                          !.currentPos = @ + 1,
                                          !.indexes = Append(@, i)],
                               i + 1)
                      ELSE optionalLoop(modKeys, info, st, i + 1)

\* what findAllOptionArgs returns:
\* [panic, args, moreContent, argString, keys, reports, src]; src is the
\* slice passed as keys, after the call
OptionArgs(p, a, m, s, k, n, c) ==
    [panic |-> p, args |-> a, moreContent |-> m, argString |-> s,
     keys |-> k, reports |-> n, src |-> c]

\* the end of findAllOptionArgs: r2 is what the optional loop left, rm2 the
\* result of RemoveItems(modKeys, indexes); rm is the first RemoveItems
findAllOptionArgsReturn(rm, modKeys, r2, rm2) ==
    IF r2.exit = "panic"
    THEN OptionArgs(TRUE, r2.args, FALSE, <<>>, <<>>, r2.reports, rm.src)
    ELSE IF r2.exit = "content"
    THEN IF rm2.panic
         THEN OptionArgs(TRUE, r2.args, FALSE, <<>>, <<>>, r2.reports, rm.src)
         ELSE OptionArgs(FALSE, r2.args, TRUE, r2.argString, rm2.slice, r2.reports, rm.src)
    ELSE OptionArgs(FALSE, r2.args, FALSE, createSplitString(<<>>), modKeys,
                    r2.reports, rm.src)

\* findAllOptionArgs once the optional loop has left r2
findAllOptionArgsAfterOptional(rm, modKeys, r2) ==
    findAllOptionArgsReturn(rm, modKeys, r2, RemoveItems(modKeys, r2.indexes))

\* findAllOptionArgs from argString = argString[currentPos:] on: rest is that
\* slice, modKeys the keys the required loop did not take
findAllOptionArgsOptional(info, r1, rm, modKeys, rest) ==
    IF Len(rest) = 0 \/ Len(modKeys) = 0
    THEN OptionArgs(FALSE, r1.args, FALSE, rest, modKeys, r1.reports, rm.src)
    ELSE findAllOptionArgsAfterOptional(rm, modKeys,
             optionalLoop(modKeys, info,
                          [r1 EXCEPT !.argString = rest, !.currentPos = 0,
                                     !.indexes = <<>>, !.exit = "run"], 0))

\* findAllOptionArgs once RemoveItems(keys, indexes) has returned rm;
\* argString[currentPos:] panics when currentPos exceeds the length
findAllOptionArgsRemoved(info, r1, rm) ==
    IF rm.panic \/ r1.currentPos > Len(r1.argString)
    THEN OptionArgs(TRUE, r1.args, FALSE, <<>>, <<>>, r1.reports, rm.src)
    ELSE findAllOptionArgsOptional(info, r1, rm, rm.slice,
             SubSeq(r1.argString, r1.currentPos + 1, Len(r1.argString)))

\* findAllOptionArgs once the required loop has left r1
findAllOptionArgsAfterRequired(keys, info, r1) ==
    IF r1.exit = "panic"
    THEN OptionArgs(TRUE, r1.args, FALSE, <<>>, <<>>, r1.reports, keys)
    ELSE IF r1.exit = "content"
    THEN OptionArgs(FALSE, r1.args, TRUE, r1.argString, keys, r1.reports, keys)
    ELSE findAllOptionArgsRemoved(info, r1, RemoveItems(keys, r1.indexes))

\* findAllOptionArgs(argString, keys, infoArgs, args)
findAllOptionArgs(argString, keys, info, args) ==
    IF Len(keys) = 0 THEN OptionArgs(FALSE, args, FALSE, <<>>, <<>>, 0, keys)
    ELSE findAllOptionArgsAfterRequired(keys, info,
             requiredLoop(keys, info,
                          [args |-> args, argString |-> argString, currentPos |-> 0,
                           indexes |-> <<>>, reports |-> 0, exit |-> "run"], 0))

\* the empty Arguments map
EmptyArguments == [n \in {} |-> <<>>]

\* what ParseArguments returns: [panic, ar, reports, keys, moreContent, found].
\* ar is the Arguments map returned, reports the number of SendErrorReport
\* calls made, keys the key slice of infoArgs after the call (infoArgs.Keys()
\* hands out the map's own slice, which findAllFlags may pass on to
\* findAllOptionArgs), moreContent the flag findAllOptionArgs returned and
\* found the Arguments it returned, before any content is captured
Parsed(p, a, n, ks, m, fd) ==
    [panic |-> p, ar |-> a, reports |-> n, keys |-> ks, moreContent |-> m, found |-> fd]

\* ParseArguments once findAllOptionArgs has returned o: with moreContent the
\* rest of the tokens is bound to modK[0]; after is the key slice of infoArgs
ParseArgumentsContent(info, o, after) ==
    IF o.panic THEN Parsed(TRUE, o.args, o.reports, after, FALSE, o.args)
    ELSE IF o.moreContent
    THEN IF ~HasKey(info, o.keys[1])
         THEN Parsed(FALSE, o.args, o.reports, after, TRUE, o.args)
         ELSE Parsed(FALSE, Bind(o.args, o.keys[1], createContentString(o.argString, 0)),
                     o.reports, after, TRUE, o.args)
    ELSE Parsed(FALSE, o.args, o.reports, after, FALSE, o.args)

\* ParseArguments once findAllOptionArgs has returned o, findAllFlags f
ParseArgumentsOptions(info, f, o) ==
    ParseArgumentsContent(info, o, IF f.same THEN o.src ELSE f.src)

\* ParseArguments once findAllFlags has returned f
ParseArgumentsFlags(info, f) ==
    IF f.panic THEN Parsed(TRUE, f.args, 0, f.src, FALSE, f.args)
    ELSE ParseArgumentsOptions(info, f,
             findAllOptionArgs(f.splitString, f.keys, info, f.args))

\* ParseArguments(args, infoArgs)
ParseArguments(args, info) ==
    IF args = <<>> \/ Len(info.keys) < 1
    THEN Parsed(FALSE, EmptyArguments, 0, info.keys, FALSE, EmptyArguments)
    ELSE ParseArgumentsFlags(info, findAllFlags(args, info.keys, info, EmptyArguments))

\* ------------------------------------------- arguments.go: registration
\* keys given to positional arguments, by position of registration
ArgNames == <<"p", "q", "r", "s">>

\* names given to flags, by order of registration
FlagNames == <<"v", "w", "u", "t">>

\* number of flags registered in info
NumFlags(info) == Cardinality({n \in DOMAIN info.values : info.values[n].Flag})

\* the default value every registered option declares
DefaultValue == <<"d">>

\* orderedmap Set(key, value): a new key is appended, a known key keeps its place
MapSet(info, key, value) ==
    [keys   |-> IF key \in DOMAIN info.values THEN info.keys ELSE Append(info.keys, key),
     values |-> [n \in (DOMAIN info.values) \cup {key} |->
                    IF n = key THEN value ELSE info.values[n]]]

\* the pattern AddFlagArg compiles for a switch flag: the literal --flag
FlagRegex(flag) == <<"-", "-", flag>>

\* the pattern AddFlagArg compiles for a value flag: --flag, a space and the
\* value group
ValueFlagRegex(flag) == <<"-", "-", flag, SP, ValuePattern>>

\* CreateCommandInfo: Arguments is orderedmap.New()
NewOrderedMap == [keys |-> <<>>, values |-> [n \in {} |-> <<>>]]

\* the words an invocation string is made of; the empty word gives leading,
\* trailing and doubled spaces
Words ==
    { <<"a">>, <<"b">>, <<"5">>, <<"-", "-", "v">>,
      <<"<", "#", "5", ">">>, <<QT, "a">>, <<"b", QT>>, <<>> }

\* the invocation strings: at most MaxWords words joined by single spaces
Inputs == {Join(ws, <<SP>>) : ws \in UNION {[1..n -> Words] : n \in 0..MaxWords}}

\* the result slot of a call that has not been made
NoResult ==
    [panic |-> FALSE, ar |-> EmptyArguments, reports |-> 0, keys |-> <<>>,
     moreContent |-> FALSE, found |-> EmptyArguments]

\* no tokenizer call and no accessor call is under way
NoCalls ==
    /\ splitArg = <<>>
    /\ splitOut = <<>>
    /\ agValue = [kind |-> "nil"]
    /\ agResult = [fn |-> "none"]

\* a command just created: no argument registered, no message dispatched
NoCommand ==
    /\ infoArgs = NewOrderedMap
    /\ fullArgs = <<>>
    /\ ret = NoResult
    /\ ret2 = NoResult

Init ==
    /\ NoCommand
    /\ pc = "register"
    /\ NoCalls
    /\ Others({})

\* cI.AddArg(argument, typeGuard, match, description, required, defaultOption)
AddArg(argument, typeGuard, match, required, defaultOption) ==
    /\ pc = "register"
    /\ Len(infoArgs.keys) < MaxKeys
    /\ infoArgs' = MapSet(infoArgs, argument,
                          [TypeGuard |-> typeGuard, Required |-> required, Match |-> match,
                           Flag |-> FALSE, DefaultOption |-> defaultOption, Regex |-> <<>>])
    /\ UNCHANGED <<fullArgs, pc, ret, ret2, splitVars, accessorVars, otherVars>>

\* cI.AddFlagArg(flag, typeGuard, match, description, required, defaultOption)
AddFlagArg(flag, typeGuard, match, required, defaultOption) ==
    /\ pc = "register"
    /\ Len(infoArgs.keys) < MaxKeys
    /\ infoArgs' = MapSet(infoArgs, flag,
                          [TypeGuard |-> typeGuard, Required |-> required, Match |-> match,
                           Flag |-> TRUE, DefaultOption |-> defaultOption,
                           Regex |-> IF match = ArgOption THEN ValueFlagRegex(flag)
                                     ELSE FlagRegex(flag)])
    /\ UNCHANGED <<fullArgs, pc, ret, ret2, splitVars, accessorVars, otherVars>>

\* commandHandler: the default handler gets ParseArguments(argString, Arguments)
Dispatch(argString) ==
    /\ pc = "register"
    /\ ret' = ParseArguments(argString, infoArgs)
    /\ infoArgs' = [infoArgs EXCEPT !.keys = ret'.keys]
    /\ fullArgs' = argString
    /\ pc' = "parsed"
    /\ UNCHANGED <<ret2, splitVars, accessorVars, otherVars>>

\* the same message dispatched a second time
DispatchAgain ==
    /\ pc = "parsed"
    /\ ret2' = ParseArguments(fullArgs, infoArgs)
    /\ infoArgs' = [infoArgs EXCEPT !.keys = ret2'.keys]
    /\ pc' = "reparsed"
    /\ UNCHANGED <<fullArgs, ret, splitVars, accessorVars, otherVars>>

\* registration of one more argument: an option, a Content or a switch flag
Register ==
    /\ pc = "register"
    /\ \/ \E typeGuard \in {String, IntGuard, Channel}, required \in BOOLEAN :
              AddArg(ArgNames[Len(infoArgs.keys) + 1], typeGuard, ArgOption, required, DefaultValue)
       \/ AddArg(ArgNames[Len(infoArgs.keys) + 1], String, ArgContent, FALSE, <<>>)
       \/ AddFlagArg(FlagNames[NumFlags(infoArgs) + 1], Boolean, ArgFlag, FALSE, <<>>)

\* a message arrives for the command
Message ==
    /\ pc = "register"
    /\ \E argString \in Inputs : Dispatch(argString)

Next ==
    \/ Register
    \/ Message
    \/ DispatchAgain

Spec == Init /\ [][Next]_vars

\* ------------------------------------------------ commands with flags
\* the words of an invocation string sent to a command with flags
FlagWords ==
    { <<"a">>, <<"5">>, <<"-", "-", "v">>, <<"-", "-", "w">>, <<QT, "a">>, <<"b", QT>> }

\* the invocation strings: at most MaxWords of these words joined by spaces
FlagInputs == {Join(ws, <<SP>>) : ws \in UNION {[1..n -> FlagWords] : n \in 0..MaxWords}}

\* registration of one more argument of a command with flags: a switch flag,
\* a value flag, a required String option or a Content
RegisterFlags ==
    /\ pc = "register"
    /\ \/ \E required \in BOOLEAN :
              AddFlagArg(FlagNames[NumFlags(infoArgs) + 1], Boolean, ArgFlag, required, <<>>)
       \/ \E typeGuard \in {String, IntGuard}, required \in BOOLEAN :
              AddFlagArg(FlagNames[NumFlags(infoArgs) + 1], typeGuard, ArgOption,
                         required, DefaultValue)
       \/ AddArg(ArgNames[Len(infoArgs.keys) + 1], String, ArgOption, TRUE, DefaultValue)
       \/ AddArg(ArgNames[Len(infoArgs.keys) + 1], String, ArgContent, FALSE, <<>>)

\* a message arrives for the command with flags
MessageFlags ==
    /\ pc = "register"
    /\ \E argString \in FlagInputs : Dispatch(argString)

NextFlags ==
    \/ RegisterFlags
    \/ MessageFlags

SpecFlags == Init /\ [][NextFlags]_vars

\* ------------------------------------------------------ tokenizer calls
\* the words of a string given to the tokenizer: plain words, words that open
\* or close a quoted span, a quoted word, a lone quote, and the empty word,
\* which gives leading, trailing and doubled spaces
SplitWords ==
    { <<"a">>, <<"b">>, <<QT, "a">>, <<"b", QT>>, <<QT, "c", QT>>, <<QT>>, <<>> }

\* the strings given to the tokenizer: at most MaxWords + 1 words joined by spaces
SplitInputs ==
    {Join(ws, <<SP>>) : ws \in UNION {[1..n -> SplitWords] : n \in 0..(MaxWords + 1)}}

\* a string is about to be given to createSplitString
InitSplit ==
    /\ NoCommand
    /\ pc = "split"
    /\ splitArg \in SplitInputs
    /\ splitOut = <<>>
    /\ agValue = [kind |-> "nil"]
    /\ agResult = [fn |-> "none"]
    /\ Others({})

\* the call createSplitString(splitArg) returns
CreateSplitString ==
    /\ pc = "split"
    /\ splitOut' = createSplitString(splitArg)
    /\ pc' = "tokens"
    /\ UNCHANGED <<infoArgs, fullArgs, ret, ret2, splitArg, accessorVars, otherVars>>

NextSplit == CreateSplitString

SpecSplit == InitSplit /\ [][NextSplit]_vars

\* ------------------------------------------------ arguments.go: accessors
\* A CommandArg holds Value, an interface{}: nil, a string ([kind, s]), a
\* float64 ([kind, h], h the number in hundredths) or a bool ([kind, b]).
\* An accessor returns [panic, value]; a float64 result is in hundredths too.
DigitSeq == <<"0", "1", "2", "3", "4", "5", "6", "7", "8", "9">>

\* the value of the digit c
DigitVal(c) == CHOOSE n \in 0..9 : DigitSeq[n + 1] = c

\* the decimal digits of n >= 0
RECURSIVE Itoa(_)
Itoa(n) ==
    IF n < 10 THEN <<DigitSeq[n + 1]>> ELSE Itoa(n \div 10) \o <<DigitSeq[(n % 10) + 1]>>

\* the number a string of digits stands for
RECURSIVE DigitsValue(_)
DigitsValue(d) ==
    IF d = <<>> THEN 0
    ELSE DigitsValue(SubSeq(d, 1, Len(d) - 1)) * 10 + DigitVal(d[Len(d)])

\* |n|
Abs(n) == IF n < 0 THEN 0 - n ELSE n

\* strconv.FormatFloat(v, 'f', 2, 64) for v = h hundredths
FormatFloat(h) ==
    (IF h < 0 THEN <<"-">> ELSE <<>>)
    \o Itoa(Abs(h) \div 100) \o <<".">>
    \o <<DigitSeq[((Abs(h) % 100) \div 10) + 1], DigitSeq[(Abs(h) % 10) + 1]>>

\* int64(v), int(v) for v = h hundredths: the fraction is cut off
Truncate(h) == IF h < 0 THEN 0 - (Abs(h) \div 100) ELSE h \div 100

\* str without a leading sign
Unsigned(str) == IF str # <<>> /\ str[1] \in {"+", "-"} THEN Tail(str) ELSE str

\* strconv.Atoi(str), strconv.ParseInt(str, 10, 64): [ok, v]
ParseInt(str) ==
    IF AtoiOk(str)
    THEN [ok |-> TRUE,
          v |-> IF str[1] = "-" THEN 0 - DigitsValue(Unsigned(str))
                ELSE DigitsValue(Unsigned(str))]
    ELSE [ok |-> FALSE, v |-> 0]

\* the hundredths the fraction digits f stand for (f has at most two digits)
Hundredths(f) ==
    IF Len(f) = 0 THEN 0 ELSE IF Len(f) = 1 THEN 10 * DigitsValue(f) ELSE DigitsValue(f)

\* strconv.ParseFloat(str, 64) for decimal notation with at most two fraction
\* digits: [ok, h].  An optional sign, digits, and an optional point followed
\* by digits, with a digit somewhere
ParseFloat(str) ==
    LET u == Unsigned(str)
        dot == IndexOf(u, <<".">>)
        ip == IF dot = 0 THEN u ELSE SubSeq(u, 1, dot - 1)
        fp == IF dot = 0 THEN <<>> ELSE SubSeq(u, dot + 1, Len(u))
    IN  IF /\ Len(ip) + Len(fp) >= 1
           /\ Len(fp) <= 2
           /\ \A i \in 1..Len(ip) : ip[i] \in Digits
           /\ \A i \in 1..Len(fp) : fp[i] \in Digits
        THEN [ok |-> TRUE,
              h |-> IF str[1] = "-" THEN 0 - (DigitsValue(ip) * 100 + Hundredths(fp))
                    ELSE DigitsValue(ip) * 100 + Hundredths(fp)]
        ELSE [ok |-> FALSE, h |-> 0]

\* strconv.ParseBool(str): [ok, b]
ParseBool(str) ==
    IF str \in BoolTrue THEN [ok |-> TRUE, b |-> TRUE]
    ELSE IF str \in BoolFalse THEN [ok |-> TRUE, b |-> FALSE]
    ELSE [ok |-> FALSE, b |-> FALSE]

\* an accessor returns value; an accessor panics
Return(value) == [panic |-> FALSE, value |-> value]
Panic == [panic |-> TRUE, value |-> <<>>]

\* ag.StringValue(): a value that is no string is asserted to be a float64
\* without the ok form, which panics for a bool
StringValue(ag) ==
    IF ag.kind = "nil" THEN Return(<<>>)
    ELSE IF ag.kind = "string" THEN Return(ag.s)
    ELSE IF ag.kind = "float" THEN Return(FormatFloat(ag.h))
    ELSE Panic

\* the end of Int64Value and IntValue for a value that is no float64: sv is
\* what ag.StringValue() returned
intOfString(sv) ==
    IF sv.panic THEN Panic
    ELSE IF ParseInt(sv.value).ok THEN Return(ParseInt(sv.value).v)
    ELSE Return(0)

\* ag.Int64Value()
Int64Value(ag) ==
    IF ag.kind = "nil" THEN Return(0)
    ELSE IF ag.kind = "float" THEN Return(Truncate(ag.h))
    ELSE intOfString(StringValue(ag))

\* ag.IntValue()
IntValue(ag) ==
    IF ag.kind = "nil" THEN Return(0)
    ELSE IF ag.kind = "float" THEN Return(Truncate(ag.h))
    ELSE intOfString(StringValue(ag))

\* the end of FloatValue for a value that is no float64
floatOfString(sv) ==
    IF sv.panic THEN Panic
    ELSE IF ParseFloat(sv.value).ok THEN Return(ParseFloat(sv.value).h)
    ELSE Return(0)

\* ag.FloatValue()
FloatValue(ag) ==
    IF ag.kind = "nil" THEN Return(0)
    ELSE IF ag.kind = "float" THEN Return(ag.h)
    ELSE floatOfString(StringValue(ag))

\* the end of BoolValue: sv is what ag.StringValue() returned
boolOfString(sv) ==
    IF sv.panic THEN Panic
    ELSE IF ParseBool(sv.value).ok THEN Return(ParseBool(sv.value).b)
    ELSE Return(FALSE)

\* ag.BoolValue()
BoolValue(ag) ==
    IF ag.kind = "nil" THEN Return(FALSE) ELSE boolOfString(StringValue(ag))

\* the strings a CommandArg is given as Value
RawStrings ==
    { <<>>, <<"5">>, <<"-", "3">>, <<"+", "7">>, <<"1", ".", "5">>, <<"1", ".", "2", "5">>,
      <<"a">>, <<"5", "a">>, <<"1">>, <<"0">>, <<"t">>,
      <<"t", "r", "u", "e">>, <<"f", "a", "l", "s", "e">> }

\* the float64 values a CommandArg is given, in hundredths
RawFloats == {0, 100, 150, 700, 0 - 225}

\* the values ParseInteractionArgs and the parser store in a CommandArg
RawValues ==
    {[kind |-> "nil"]}
    \cup {[kind |-> "string", s |-> str] : str \in RawStrings}
    \cup {[kind |-> "float", h |-> n] : n \in RawFloats}
    \cup {[kind |-> "bool", b |-> t] : t \in BOOLEAN}

\* a CommandArg with some Value is at hand
InitAccessors ==
    /\ NoCommand
    /\ pc = "value"
    /\ splitArg = <<>>
    /\ splitOut = <<>>
    /\ agValue \in RawValues
    /\ agResult = [fn |-> "none"]
    /\ Others({})

\* the accessor fn is called on the CommandArg and ends as r tells
Call(fn, r) ==
    /\ pc = "value"
    /\ agResult' = [fn |-> fn, panic |-> r.panic, value |-> r.value]
    /\ pc' = "cast"
    /\ UNCHANGED <<infoArgs, fullArgs, ret, ret2, splitVars, agValue, otherVars>>

CallStringValue == Call("StringValue", StringValue(agValue))
CallInt64Value == Call("Int64Value", Int64Value(agValue))
CallIntValue == Call("IntValue", IntValue(agValue))
CallFloatValue == Call("FloatValue", FloatValue(agValue))
CallBoolValue == Call("BoolValue", BoolValue(agValue))

NextAccessors ==
    \/ CallStringValue
    \/ CallInt64Value
    \/ CallIntValue
    \/ CallFloatValue
    \/ CallBoolValue

SpecAccessors == InitAccessors /\ [][NextAccessors]_vars

\* ------------------------------------------ arguments.go: entity accessors
\* regexp [^0-9]+ replaced by nothing: the digits of in
EnsureNumbers(in) == SelectSeq(in, LAMBDA c : c \in Digits)

\* the shortest Discord ID
MinIdLen == 17

\* CleanId: the digits of in, or "" when there are fewer than 17
CleanId(in) == IF Len(EnsureNumbers(in)) < MinIdLen THEN <<>> ELSE EnsureNumbers(in)

\* two snowflakes: an entity of 17 digits, and the guild, whose @everyone role
\* carries the guild's ID
Id17 == [i \in 1..17 |-> DigitSeq[(i % 10) + 1]]
TheGuild == [i \in 1..18 |-> DigitSeq[((i + 3) % 10) + 1]]
Snowflakes == {Id17, TheGuild}

\* a *discordgo.Session: nil, or one whose state cache holds the entities
\* cached and whose API answers for the entities known
Sessions ==
    {[isNil |-> TRUE]}
    \cup {[isNil |-> FALSE, cached |-> c, known |-> k] :
              c \in SUBSET Snowflakes, k \in SUBSET Snowflakes}

\* the guild IDs a caller passes
GuildIds == {<<>>, TheGuild}

\* a pointer to an entity struct with the given ID, and the nil pointer
Entity(id) == [isNil |-> FALSE, ID |-> id]
NilEntity == [isNil |-> TRUE, ID |-> <<>>]

\* what an entity accessor returns: the entity and the error ("" is nil)
Found(entity) == [panic |-> FALSE, entity |-> entity, err |-> ""]
Failed(entity, err) == [panic |-> FALSE, entity |-> entity, err |-> err]
Panicked == [panic |-> TRUE, entity |-> NilEntity, err |-> ""]

\* s.State.Channel(id), s.State.Member(g, id): a cache hit
StateLookup(s, id) == id \in s.cached

\* s.Channel(id), s.GuildMember(g, id), s.User(id), s.GuildRoles(gID): the API
ApiLookup(s, id) == id \in s.known

\* s.State.Role(guildID, roleID): the role roleID of the cached guild guildID
StateRole(s, guildID, roleID) == guildID = TheGuild /\ roleID \in s.cached

\* ChannelValue after chanID := ag.StringValue()
channelOfString(sv, s) ==
    IF sv.panic THEN Panicked
    ELSE IF sv.value = <<>> THEN Failed(Entity(sv.value), "no channel id")
    ELSE IF s.isNil THEN Failed(Entity(sv.value), "no session")
    ELSE IF CleanId(sv.value) = <<>> THEN Failed(Entity(sv.value), "not an id")
    ELSE IF StateLookup(s, CleanId(sv.value)) \/ ApiLookup(s, CleanId(sv.value))
    THEN Found(Entity(CleanId(sv.value)))
    ELSE Failed(Entity(sv.value), "could not find channel")

\* ag.ChannelValue(s)
ChannelValue(ag, s) == channelOfString(StringValue(ag), s)

\* MemberValue after userID := ag.StringValue(); the ID is that of the User
memberOfString(sv, s) ==
    IF sv.panic THEN Panicked
    ELSE IF sv.value = <<>> THEN Failed(Entity(sv.value), "no userid")
    ELSE IF CleanId(sv.value) = <<>> THEN Failed(Entity(sv.value), "invalid userid")
    ELSE IF s.isNil THEN Failed(Entity(CleanId(sv.value)), "session is nil")
    ELSE IF StateLookup(s, CleanId(sv.value)) \/ ApiLookup(s, CleanId(sv.value))
    THEN Found(Entity(CleanId(sv.value)))
    ELSE Failed(Entity(sv.value), "cant find user")

\* ag.MemberValue(s, g)
MemberValue(ag, s) == memberOfString(StringValue(ag), s)

\* UserValue after userID := ag.StringValue()
userOfString(sv, s) ==
    IF sv.panic THEN Panicked
    ELSE IF sv.value = <<>> THEN Failed(Entity(sv.value), "no userid")
    ELSE IF CleanId(sv.value) = <<>> THEN Failed(Entity(sv.value), "invalid userid")
    ELSE IF s.isNil THEN Failed(Entity(sv.value), "session is nil")
    ELSE IF ApiLookup(s, CleanId(sv.value)) THEN Found(Entity(CleanId(sv.value)))
    ELSE Failed(Entity(CleanId(sv.value)), "cant find user")

\* ag.UserValue(s)
UserValue(ag, s) == userOfString(StringValue(ag), s)

\* RoleValue after roleID := ag.StringValue(): the state is asked for the
\* role gID of the guild cleanedId, then the roles of gID are searched
roleOfString(sv, s, gID) ==
    IF sv.panic THEN Panicked
    ELSE IF sv.value = <<>> THEN Failed(NilEntity, "unable to find roleid")
    ELSE IF CleanId(sv.value) = <<>> THEN Failed(Entity(sv.value), "invalid roleid")
    ELSE IF s.isNil \/ gID = <<>>
    THEN Failed(Entity(CleanId(sv.value)), "no session (and/or) guild id")
    ELSE IF StateRole(s, CleanId(sv.value), gID) THEN Found(Entity(gID))
    ELSE IF ApiLookup(s, CleanId(sv.value)) THEN Found(Entity(CleanId(sv.value)))
    ELSE Failed(Entity(sv.value), "could not find role")

\* ag.RoleValue(s, gID)
RoleValue(ag, s, gID) == roleOfString(StringValue(ag), s, gID)

\* the values of a CommandArg that is to name an entity
EntityStrings ==
    { <<>>, <<"a">>, <<"<", "#", "5", ">">>, Id17, TheGuild,
      <<"<", "@", "!">> \o Id17 \o <<">">>, <<"<", "@", "&">> \o TheGuild \o <<">">> }

EntityValues ==
    {[kind |-> "nil"], [kind |-> "float", h |-> 100]}
    \cup {[kind |-> "string", s |-> str] : str \in EntityStrings}
    \cup {[kind |-> "bool", b |-> t] : t \in BOOLEAN}

\* a CommandArg with some Value and a session are at hand
InitEntity ==
    /\ NoCommand
    /\ pc = "entity"
    /\ splitArg = <<>>
    /\ splitOut = <<>>
    /\ agValue \in EntityValues
    /\ agResult = [fn |-> "none"]
    /\ session \in Sessions
    /\ Others({"session"})

\* the entity accessor fn is called with guild ID g and ends as r tells
Resolve(fn, g, r) ==
    /\ pc = "entity"
    /\ agResult' = [fn |-> fn, g |-> g, panic |-> r.panic, entity |-> r.entity,
                    err |-> r.err]
    /\ pc' = "resolved"
    /\ UNCHANGED <<infoArgs, fullArgs, ret, ret2, splitVars, agValue, session>>
    /\ Frame({"session"})

CallChannelValue == Resolve("ChannelValue", <<>>, ChannelValue(agValue, session))
CallMemberValue == \E g \in GuildIds : Resolve("MemberValue", g, MemberValue(agValue, session))
CallUserValue == Resolve("UserValue", <<>>, UserValue(agValue, session))
CallRoleValue == \E g \in GuildIds : Resolve("RoleValue", g, RoleValue(agValue, session, g))

NextEntity ==
    \/ CallChannelValue
    \/ CallMemberValue
    \/ CallUserValue
    \/ CallRoleValue

SpecEntity == InitEntity /\ [][NextEntity]_vars

\* ------------------------------------- commands.go: concurrent dispatches
\* the goroutines discordgo starts for two incoming messages
Dispatches == {1, 2}

\* the schemas of the command the messages are for
Schemas ==
    { MapSet(MapSet(NewOrderedMap,
          "p", [TypeGuard |-> String, Required |-> TRUE, Match |-> ArgOption,
                Flag |-> FALSE, DefaultOption |-> DefaultValue, Regex |-> <<>>]),
          "q", [TypeGuard |-> String, Required |-> FALSE, Match |-> ArgContent,
                Flag |-> FALSE, DefaultOption |-> <<>>, Regex |-> <<>>]),
      MapSet(MapSet(NewOrderedMap,
          "v", [TypeGuard |-> Boolean, Required |-> FALSE, Match |-> ArgFlag,
                Flag |-> TRUE, DefaultOption |-> <<>>, Regex |-> FlagRegex("v")]),
          "p", [TypeGuard |-> IntGuard, Required |-> FALSE, Match |-> ArgOption,
                Flag |-> FALSE, DefaultOption |-> DefaultValue, Regex |-> <<>>]),
      MapSet(MapSet(NewOrderedMap,
          "p", [TypeGuard |-> String, Required |-> TRUE, Match |-> ArgOption,
                Flag |-> FALSE, DefaultOption |-> DefaultValue, Regex |-> <<>>]),
          "q", [TypeGuard |-> String, Required |-> TRUE, Match |-> ArgOption,
                Flag |-> FALSE, DefaultOption |-> DefaultValue, Regex |-> <<>>]) }

\* the argument strings of the two messages
ConcurrentInputs ==
    { <<>>, <<"a">>, <<"a", SP, "b">>, <<"-", "-", "v", SP, "5">>, <<"5", SP, "a">> }

\* the values commandsGC has when the two messages arrive
GCValues == {0, 24, 25}

\* the variables two dispatches share
Shared == {"schema", "commandsGC"}

\* nobody has touched anything shared
NoAccess == [v \in Shared |-> [r |-> {}, w |-> {}]]

\* dispatch d read the shared variable v
Read(acc, v, d) == [acc EXCEPT ![v].r = @ \cup {d}]

\* dispatch d wrote the shared variable v
Written(acc, v, d) == [acc EXCEPT ![v].w = @ \cup {d}]

\* two messages for the command have passed the checks of commandHandler
InitConcurrent ==
    /\ infoArgs \in Schemas
    /\ fullArgs = <<>>
    /\ ret = NoResult
    /\ ret2 = NoResult
    /\ pc = "dispatch"
    /\ NoCalls
    /\ dispatches \in [Dispatches -> {[at |-> "parse", args |-> a, schema |-> infoArgs,
                                      flags |-> <<>>, result |-> NoResult, gc |-> 0] :
                                         a \in ConcurrentInputs}]
    /\ commandsGC \in GCValues
    /\ accessed = NoAccess
    /\ Others({"dispatches"})

\* what a step of a dispatch leaves alone
DispatchFrame ==
    /\ UNCHANGED <<fullArgs, pc, ret, ret2, splitVars, accessorVars>>
    /\ Frame({"dispatches"})

\* the key list a parse step leaves in the schema is a write when it differs
StoreKeys(d, keys) ==
    /\ infoArgs' = [infoArgs EXCEPT !.keys = keys]
    /\ accessed' = IF keys = infoArgs.keys THEN Read(accessed, "schema", d)
                   ELSE Written(Read(accessed, "schema", d), "schema", d)

\* ParseArguments up to the return of findAllFlags, or to its own return for
\* an empty string or an empty schema
ParseFlagsStep(d) ==
    /\ pc = "dispatch"
    /\ dispatches[d].at = "parse"
    /\ IF dispatches[d].args = <<>> \/ Len(infoArgs.keys) < 1
       THEN /\ dispatches' = [dispatches EXCEPT ![d].at = "handler",
                                  ![d].result = ParseArguments(dispatches[d].args, infoArgs)]
            /\ StoreKeys(d, infoArgs.keys)
       ELSE /\ dispatches' = [dispatches EXCEPT ![d].at = "options",
                                  ![d].flags = findAllFlags(dispatches[d].args, infoArgs.keys,
                                                            infoArgs, EmptyArguments)]
            /\ StoreKeys(d, dispatches'[d].flags.src)
    /\ UNCHANGED commandsGC
    /\ DispatchFrame

\* ParseArguments from findAllOptionArgs to its return
ParseOptionsStep(d) ==
    /\ pc = "dispatch"
    /\ dispatches[d].at = "options"
    /\ dispatches' = [dispatches EXCEPT ![d].at = "handler",
                          ![d].result = ParseArgumentsFlags(infoArgs, dispatches[d].flags)]
    /\ StoreKeys(d, dispatches'[d].result.keys)
    /\ UNCHANGED commandsGC
    /\ DispatchFrame

\* command.Handlers["default"](&Context{...}) runs and returns
HandlerStep(d) ==
    /\ pc = "dispatch"
    /\ dispatches[d].at = "handler"
    /\ dispatches' = [dispatches EXCEPT ![d].at = "load"]
    /\ UNCHANGED <<infoArgs, commandsGC, accessed>>
    /\ DispatchFrame

\* commandsGC is read for the test and the increment
LoadGC(d) ==
    /\ pc = "dispatch"
    /\ dispatches[d].at = "load"
    /\ dispatches' = [dispatches EXCEPT ![d].at = "store", ![d].gc = commandsGC]
    /\ accessed' = Read(accessed, "commandsGC", d)
    /\ UNCHANGED <<infoArgs, commandsGC>>
    /\ DispatchFrame

\* commandsGC = 0 when it was 25 and above 25, commandsGC++ otherwise
StoreGC(d) ==
    /\ pc = "dispatch"
    /\ dispatches[d].at = "store"
    /\ commandsGC' = IF dispatches[d].gc = 25 /\ dispatches[d].gc > 25 THEN 0
                     ELSE dispatches[d].gc + 1
    /\ dispatches' = [dispatches EXCEPT ![d].at = "done"]
    /\ accessed' = Written(accessed, "commandsGC", d)
    /\ UNCHANGED infoArgs
    /\ DispatchFrame

NextConcurrent ==
    \/ \E d \in Dispatches : ParseFlagsStep(d)
    \/ \E d \in Dispatches : ParseOptionsStep(d)
    \/ \E d \in Dispatches : HandlerStep(d)
    \/ \E d \in Dispatches : LoadGC(d)
    \/ \E d \in Dispatches : StoreGC(d)

SpecConcurrent == InitConcurrent /\ [][NextConcurrent]_vars

\* ------------------------------------------------- util.go: RemoveItems
\* the longest slice RemoveItems is given
MaxSlice == 4

\* the elements of the slices
Elems == {"x", "y", "z"}

\* the slices RemoveItems is given
Slices == UNION {[1..n -> Elems] : n \in 0..MaxSlice}

\* the positions in S as an ascending sequence of 0-based indexes
RECURSIVE Ascending(_)
Ascending(S) ==
    IF S = {} THEN <<>>
    ELSE LET least == CHOOSE i \in S : \A j \in S : i <= j
         IN  <<least>> \o Ascending(S \ {least})

\* the index lists findAllOptionArgs builds for a slice of n elements: distinct
\* positions of the slice in ascending order
IndexLists(n) == {Ascending(S) : S \in SUBSET (0..(n - 1))}

\* a slice and a list of its positions are at hand
InitRemove ==
    /\ NoCommand
    /\ pc = "remove"
    /\ NoCalls
    /\ \E slice \in Slices : \E indexes \in IndexLists(Len(slice)) :
           removeArgs = [slice |-> slice, indexes |-> indexes]
    /\ removeRet = <<>>
    /\ Others({"remove"})

\* the call RemoveItems(slice, indexes)
CallRemoveItems ==
    /\ pc = "remove"
    /\ removeRet' = RemoveItems(removeArgs.slice, removeArgs.indexes)
    /\ pc' = "removed"
    /\ UNCHANGED <<infoArgs, fullArgs, ret, ret2, splitVars, accessorVars, removeArgs>>
    /\ Frame({"remove"})

NextRemove == CallRemoveItems

SpecRemove == InitRemove /\ [][NextRemove]_vars

\* ---------------------------------------------- util.go: ExtractCommand
TAB == "\t"

\* the white space of strings.Fields that the messages here hold
WhiteSpace == {SP, TAB}

\* strings.Fields(s) from the characters of s on, word being the field begun
RECURSIVE FieldsFrom(_, _)
FieldsFrom(s, word) ==
    IF s = <<>> THEN (IF word = <<>> THEN <<>> ELSE <<word>>)
    ELSE IF Head(s) \in WhiteSpace
    THEN (IF word = <<>> THEN <<>> ELSE <<word>>) \o FieldsFrom(Tail(s), <<>>)
    ELSE FieldsFrom(Tail(s), Append(word, Head(s)))

\* strings.Fields(s)
Fields(s) == FieldsFrom(s, <<>>)

\* strings.HasPrefix(s, prefix)
HasPrefix(s, prefix) == Len(s) >= Len(prefix) /\ SubSeq(s, 1, Len(prefix)) = prefix

\* strings.TrimPrefix(s, prefix)
TrimPrefix(s, prefix) ==
    IF HasPrefix(s, prefix) THEN SubSeq(s, Len(prefix) + 1, Len(s)) ELSE s

\* strings.SplitN(s, sep, 2): s cut at the first sep; s alone when sep does not
\* occur; with an empty sep the first character and the rest, fewer when s is
\* shorter
SplitN2(s, sep) ==
    IF sep = <<>>
    THEN (IF s = <<>> THEN <<>>
          ELSE IF Len(s) = 1 THEN <<s>>
          ELSE <<SubSeq(s, 1, 1), SubSeq(s, 2, Len(s))>>)
    ELSE IF IndexOf(s, sep) = 0 THEN <<s>>
    ELSE <<SubSeq(s, 1, IndexOf(s, sep) - 1),
           SubSeq(s, IndexOf(s, sep) + Len(sep), Len(s))>>

\* strings.Replace(s, old, "", 1) for a non-empty old
ReplaceFirst(s, old) ==
    IF IndexOf(s, old) = 0 THEN s
    ELSE SubSeq(s, 1, IndexOf(s, old) - 1) \o SubSeq(s, IndexOf(s, old) + Len(old), Len(s))

UpperCase == <<"A", "B", "C", "D", "E", "F", "G", "H", "I", "J", "K", "L", "M",
               "N", "O", "P", "Q", "R", "S", "T", "U", "V", "W", "X", "Y", "Z">>
LowerCase == <<"a", "b", "c", "d", "e", "f", "g", "h", "i", "j", "k", "l", "m",
               "n", "o", "p", "q", "r", "s", "t", "u", "v", "w", "x", "y", "z">>

\* strings.ToLower(s)
ToLower(s) ==
    [i \in 1..Len(s) |->
        IF \E n \in 1..26 : UpperCase[n] = s[i]
        THEN LowerCase[CHOOSE n \in 1..26 : UpperCase[n] = s[i]]
        ELSE s[i]]

\* what ExtractCommand returns: two nil pointers, or the trigger and the
\* argument text; a Go panic otherwise
NoTrigger == [panic |-> FALSE, isNil |-> TRUE, trigger |-> <<>>, fullArgs |-> <<>>]
Extracted(trigger, args) ==
    [panic |-> FALSE, isNil |-> FALSE, trigger |-> trigger, fullArgs |-> args]
ExtractPanic == [panic |-> TRUE, isNil |-> TRUE, trigger |-> <<>>, fullArgs |-> <<>>]

\* the prefix branch once content := split[1] is a non-empty string: the
\* trigger is the first field (index 0 of no fields panics), the arguments
\* what follows its first occurrence, less one leading space
extractByPrefix(content, fields) ==
    IF fields = <<>> THEN ExtractPanic
    ELSE Extracted(ToLower(fields[1]),
                   TrimPrefix(SplitN2(content, fields[1])[2], <<SP>>))

\* the mention branch once content := split[1] is a non-empty string: the
\* trigger is lower-cased before content is split on it, and index 1 of a
\* split without the separator panics
extractByMention(content, fields) ==
    IF fields = <<>> THEN ExtractPanic
    ELSE IF Len(SplitN2(content, ToLower(fields[1]))) < 2 THEN ExtractPanic
    ELSE Extracted(ToLower(fields[1]), SplitN2(content, ToLower(fields[1]))[2])

\* both branches after the split on the prefix or the mention
extractFromSplit(split, byPrefix) ==
    IF Len(split) < 2 THEN ExtractPanic
    ELSE IF split[2] = <<>> THEN NoTrigger
    ELSE IF byPrefix THEN extractByPrefix(split[2], Fields(split[2]))
    ELSE extractByMention(split[2], Fields(split[2]))

\* ExtractCommand(guild, message) with guild.Prefix = prefix and
\* Session.State.User.Mention() = mention
ExtractCommand(prefix, mention, message) ==
    IF HasPrefix(message, prefix)
    THEN extractFromSplit(SplitN2(message, prefix), TRUE)
    ELSE IF HasPrefix(ReplaceFirst(message, <<"!">>), mention \o <<SP>>)
    THEN extractFromSplit(SplitN2(ReplaceFirst(message, <<"!">>), mention \o <<SP>>), FALSE)
    ELSE NoTrigger

\* the mention of the bot user
BotMention == <<"<", "@", "7", ">">>

\* the prefixes a guild has: the default, and what SetPrefix was given
Prefixes == {<<"!">>, <<"p", "!">>, <<>>}

\* the longest message text after the prefix or the mention
MaxText == 4

\* message texts: some characters, as they are or after a mention of the bot
Texts == UNION {[1..n -> {"!", "p", "P", SP, TAB}] : n \in 0..MaxText}
Mentions == {BotMention, <<"<", "@", "!", "7", ">">>, BotMention \o <<SP>>,
             <<"<", "@", "!", "7", ">", SP>>}
Messages == Texts \cup {m \o t : m \in Mentions, t \in Texts}

\* a message has arrived in a guild
InitExtract ==
    /\ NoCommand
    /\ pc = "extract"
    /\ NoCalls
    /\ \E prefix \in Prefixes : \E message \in Messages :
           extractArgs = [prefix |-> prefix, message |-> message]
    /\ extractRet = <<>>
    /\ Others({"extract"})

\* the call ExtractCommand(&g.Info, message.Content) of commandHandler
CallExtractCommand ==
    /\ pc = "extract"
    /\ extractRet' = ExtractCommand(extractArgs.prefix, BotMention, extractArgs.message)
    /\ pc' = "extracted"
    /\ UNCHANGED <<infoArgs, fullArgs, ret, ret2, splitVars, accessorVars, extractArgs>>
    /\ Frame({"extract"})

NextExtract == CallExtractCommand

SpecExtract == InitExtract /\ [][NextExtract]_vars

\* -------------------------------------- commands.go: handleCommandError
\* the values a panic carries: a runtime.Error (index out of range, nil map,
\* nil pointer), another error value, a string
PanicValues == {"runtime.Error", "error", "string"}

\* the users registered as bot admins
Admins == {"admin1", "admin2"}

\* a message for the command has passed the checks of commandHandler and
\* handleCommandError is deferred
InitRecover ==
    /\ infoArgs \in Schemas
    /\ fullArgs \in ConcurrentInputs
    /\ ret = NoResult
    /\ ret2 = NoResult
    /\ pc = "deferred"
    /\ NoCalls
    /\ handling = [at |-> "parse", panic |-> "none", panicked |-> FALSE, called |-> FALSE,
                   reported |-> {}]
    /\ botAdmins \in SUBSET Admins
    /\ Others({"handling"})

\* what a step of the dispatch leaves alone
RecoverFrame ==
    /\ UNCHANGED <<infoArgs, fullArgs, pc, ret2, splitVars, accessorVars, botAdmins>>
    /\ Frame({"handling"})

\* Args: *ParseArguments(*argString, command.Info.Arguments): a panic of the
\* parser is a run-time error
ParseForHandler ==
    /\ pc = "deferred"
    /\ handling.at = "parse"
    /\ ret' = ParseArguments(fullArgs, infoArgs)
    /\ handling' = IF ret'.panic
                   THEN [handling EXCEPT !.at = "recover", !.panic = "runtime.Error",
                                         !.panicked = TRUE]
                   ELSE [handling EXCEPT !.at = "handler"]
    /\ RecoverFrame

\* command.Handlers["default"](ctx) returns
HandlerReturns ==
    /\ pc = "deferred"
    /\ handling.at = "handler"
    /\ handling' = [handling EXCEPT !.at = "recover", !.called = TRUE]
    /\ UNCHANGED ret
    /\ RecoverFrame

\* command.Handlers["default"](ctx) panics with the value v
HandlerPanics(v) ==
    /\ pc = "deferred"
    /\ handling.at = "handler"
    /\ handling' = [handling EXCEPT !.at = "recover", !.panic = v, !.panicked = TRUE,
                                    !.called = TRUE]
    /\ UNCHANGED ret
    /\ RecoverFrame

\* handleCommandError up to SendErrorReport: recover() ends the panic; for a
\* value r that is no runtime.Error the assertion r.(runtime.Error) panics
\* anew, in the deferred function, and that panic leaves commandHandler;
\* otherwise SendErrorReport goes through the bot admins and sends to each
RecoverStep ==
    /\ pc = "deferred"
    /\ handling.at = "recover"
    /\ \/ /\ handling.panic = "none"
          /\ handling' = [handling EXCEPT !.at = "returned"]
       \/ /\ handling.panic \notin {"none", "runtime.Error"}
          /\ handling' = [handling EXCEPT !.at = "propagated", !.panic = "runtime.Error"]
       \/ /\ handling.panic = "runtime.Error"
          /\ handling' = [handling EXCEPT !.at = "notify", !.panic = "none",
                                          !.reported = botAdmins]
    /\ UNCHANGED ret
    /\ RecoverFrame

\* handleCommandError from Session.ChannelMessageSend on: when the send fails
\* message is nil and message.ID panics in the deferred function
NotifyStep(sendFails) ==
    /\ pc = "deferred"
    /\ handling.at = "notify"
    /\ handling' = IF sendFails
                   THEN [handling EXCEPT !.at = "propagated", !.panic = "runtime.Error"]
                   ELSE [handling EXCEPT !.at = "returned"]
    /\ UNCHANGED ret
    /\ RecoverFrame

NextRecover ==
    \/ ParseForHandler
    \/ HandlerReturns
    \/ \E v \in PanicValues : HandlerPanics(v)
    \/ RecoverStep
    \/ \E sendFails \in BOOLEAN : NotifyStep(sendFails)

SpecRecover == InitRecover /\ [][NextRecover]_vars

\* ----------------------------------- commands.go: registration, dispatch
\* the names commands are created with
CommandNames == {<<"p", "i", "n", "g">>, <<"P", "i", "n", "g">>}

\* the first words of the messages
Triggers == CommandNames \cup {<<"p", "o", "n", "g">>}

\* the authors of messages: a bot admin, another user, the bot itself
BotUser == "bot"
Authors == {"admin1", "user", BotUser}

\* the default prefix of a guild
DefaultPrefix == <<"!">>

\* CreateCommandInfo(name, description, public, group): a chat command that
\* is a parent and whose only alias is its name
CreateCommandInfo(name, public) ==
    [Type |-> "CHAT", Aliases |-> <<name>>, Public |-> public, IsTyping |-> FALSE,
     Name |-> name, IsParent |-> TRUE, IsChild |-> FALSE, setParentCalls |-> 0]

\* no command registered, no alias
EmptyRegistry == [commands |-> <<>>, aliases |-> <<>>]

\* m[key] = value on a Go map
MapPut(m, key, value) ==
    [k \in (DOMAIN m) \cup {key} |-> IF k = key THEN value ELSE m[k]]

\* the loop of AddChatCommand over info.Aliases from alias i on: an alias
\* already registered is skipped, any other is lower-cased and mapped to the
\* name as given
RECURSIVE addAliases(_, _, _, _)
addAliases(aliases, list, name, i) ==
    IF i > Len(list) THEN aliases
    ELSE IF list[i] \in DOMAIN aliases THEN addAliases(aliases, list, name, i + 1)
    ELSE addAliases(MapPut(aliases, ToLower(list[i]), name), list, name, i + 1)

\* no message is being handled
NoDelivery ==
    [at |-> "idle", content |-> <<>>, author |-> "", channelFound |-> FALSE,
     calls |-> 0, args |-> EmptyArguments]

\* a command has been created with CreateCommandInfo and has declared its
\* arguments; nothing is registered; admin1 is a bot admin
InitDispatch ==
    /\ infoArgs \in Schemas \cup {NewOrderedMap}
    /\ fullArgs = <<>>
    /\ ret = NoResult
    /\ ret2 = NoResult
    /\ pc = "setup"
    /\ NoCalls
    /\ \E name \in CommandNames, public \in BOOLEAN : cmdInfo = CreateCommandInfo(name, public)
    /\ registry = EmptyRegistry
    /\ delivery = NoDelivery
    /\ handling = <<>>
    /\ botAdmins = {"admin1"}
    /\ Others({"dispatch", "handling"})

\* what a step of registration or dispatch leaves alone
DispatchingFrame ==
    /\ UNCHANGED <<infoArgs, fullArgs, ret, ret2, splitVars, accessorVars, handling, botAdmins>>
    /\ Frame({"dispatch", "handling"})

\* cI.SetParent(isParent, parentID)
SetParent(isParent) ==
    /\ pc = "setup"
    /\ cmdInfo.setParentCalls < 1
    /\ cmdInfo' = [cmdInfo EXCEPT !.IsChild = IF ~isParent THEN TRUE ELSE @,
                            !.IsParent = isParent,
                            !.setParentCalls = @ + 1]
    /\ UNCHANGED <<pc, registry, delivery>>
    /\ DispatchingFrame

\* AddCommand(info, function) for a chat command: AddChatCommand
AddCommand ==
    /\ pc = "setup"
    /\ registry.commands = <<>>
    /\ registry' = [commands |-> MapPut(registry.commands, ToLower(cmdInfo.Name),
                                       cmdInfo.Name),
                    aliases |-> addAliases(registry.aliases, cmdInfo.Aliases, cmdInfo.Name, 1)]
    /\ UNCHANGED <<pc, cmdInfo, delivery>>
    /\ DispatchingFrame

\* the session is opened: from now on messages arrive
Start ==
    /\ pc = "setup"
    /\ pc' = "running"
    /\ UNCHANGED <<cmdInfo, registry, delivery>>
    /\ DispatchingFrame

\* discordgo calls commandHandler for a message "<prefix><trigger> <args>"
Deliver(trigger, args, author, channelFound) ==
    /\ pc = "running"
    /\ delivery.at = "idle"
    /\ delivery' = [at |-> "handle", content |-> DefaultPrefix \o trigger \o <<SP>> \o args,
                    author |-> author, channelFound |-> channelFound, calls |-> 0,
                    args |-> EmptyArguments]
    /\ UNCHANGED <<pc, cmdInfo, registry>>
    /\ DispatchingFrame

\* commandHandler returns without calling the handler
Ignored == [delivery EXCEPT !.at = "returned"]

\* commandHandler from the lookup of the command on: ex is what ExtractCommand
\* returned.  A command that is a parent returns at once; otherwise the handler
\* gets ParseArguments of the argument text, unless the parser panics
runCommand(ex, isMod) ==
    IF ~(ex.trigger \in DOMAIN registry.aliases
         /\ registry.aliases[ex.trigger] \in DOMAIN registry.commands)
    THEN Ignored
    ELSE IF ~(delivery.author \in botAdmins \/ cmdInfo.Public \/ isMod) THEN Ignored
    ELSE IF cmdInfo.IsParent THEN Ignored
    ELSE IF ParseArguments(ex.fullArgs, infoArgs).panic THEN Ignored
    ELSE [delivery EXCEPT !.at = "returned", !.calls = @ + 1,
                          !.args = ParseArguments(ex.fullArgs, infoArgs).ar]

\* commandHandler once ExtractCommand has returned ex: blocked tells that the
\* guild disabled the command or does not admit the author or the channel
handleExtracted(ex, blocked, isMod) ==
    IF ex.panic THEN [delivery EXCEPT !.at = "crashed"]
    ELSE IF ex.isNil THEN Ignored
    ELSE IF delivery.author \notin botAdmins /\ blocked THEN Ignored
    ELSE runCommand(ex, isMod)

\* commandHandler(session, message)
Handle(blocked, isMod) ==
    /\ pc = "running"
    /\ delivery.at = "handle"
    /\ delivery' = IF ~delivery.channelFound \/ delivery.author = BotUser THEN Ignored
                   ELSE handleExtracted(ExtractCommand(DefaultPrefix, BotMention,
                                                       delivery.content),
                                        blocked, isMod)
    /\ UNCHANGED <<pc, cmdInfo, registry>>
    /\ DispatchingFrame

CommandHandler == \E blocked \in BOOLEAN, isMod \in BOOLEAN : Handle(blocked, isMod)

\* the goroutine of the event ends: the next message can be handled
EventDone ==
    /\ pc = "running"
    /\ delivery.at = "returned"
    /\ delivery' = NoDelivery
    /\ UNCHANGED <<pc, cmdInfo, registry>>
    /\ DispatchingFrame

NextDispatch ==
    \/ \E isParent \in BOOLEAN : SetParent(isParent)
    \/ AddCommand
    \/ Start
    \/ \E trigger \in Triggers, args \in ConcurrentInputs, author \in Authors,
          channelFound \in BOOLEAN : Deliver(trigger, args, author, channelFound)
    \/ CommandHandler
    \/ EventDone

SpecDispatch == InitDispatch /\ [][NextDispatch]_vars

\* ----------------------------------------- commands.go: guild whitelists
\* the member and the role of the guild; the channels are the two snowflakes
MemberId == Id17
RoleId == TheGuild

\* the longest list a guild file holds
MaxList == 2

\* the lists over the IDs S that a guild file can hold: no ID twice
ListsOver(S) ==
    {l \in UNION {[1..n -> S] : n \in 0..MaxList} :
        \A i, j \in DOMAIN l : i # j => l[i] # l[j]}

\* x is an element of the slice list
InList(x, list) == \E i \in DOMAIN list : list[i] = x

\* g.GetChannel(channelId) finds the channel: the ID is clean and among the
\* channels of the guild
GetChannelOk(channelId) ==
    CleanId(channelId) # <<>> /\ CleanId(channelId) \in discord.channels

\* g.IsMember(userId): Session.GuildMember finds the member
IsMember(userId) == CleanId(userId) # <<>> /\ CleanId(userId) \in discord.members

\* g.IsRole(roleId): the role is among Session.GuildRoles
IsRole(roleId) == CleanId(roleId) # <<>> /\ CleanId(roleId) \in discord.roles

\* g.MemberOrRoleInList(checkId, list): a member is in the list with the own
\* ID or with a role; a role with its ID
MemberOrRoleInList(checkId, list) ==
    IF IsMember(checkId)
    THEN \E i \in DOMAIN list :
             list[i] = CleanId(checkId) \/ list[i] \in discord.memberRoles
    ELSE IsRole(checkId) /\ InList(CleanId(checkId), list)

\* g.MemberOrRoleIsWhitelisted(checkId): true for an empty whitelist
MemberOrRoleIsWhitelisted(g, checkId) ==
    IF Len(g.WhitelistIds) = 0 THEN TRUE ELSE MemberOrRoleInList(checkId, g.WhitelistIds)

\* g.MemberOrRoleIsIgnored(checkId): false for an empty list
MemberOrRoleIsIgnored(g, checkId) ==
    IF Len(g.IgnoredIds) = 0 THEN FALSE ELSE MemberOrRoleInList(checkId, g.IgnoredIds)

\* g.ChannelIsWhitelisted(channelId): true for an empty whitelist, false for
\* what is no channel
ChannelIsWhitelisted(g, channelId) ==
    IF Len(g.WhitelistedChannels) = 0 THEN TRUE
    ELSE IF ~GetChannelOk(channelId) THEN FALSE
    ELSE InList(CleanId(channelId), g.WhitelistedChannels)

\* g.ChannelIsIgnored(channelId): false for an empty list, true for what is no
\* channel
ChannelIsIgnored(g, channelId) ==
    IF Len(g.IgnoredChannels) = 0 THEN FALSE
    ELSE IF ~GetChannelOk(channelId) THEN TRUE
    ELSE InList(CleanId(channelId), g.IgnoredChannels)

\* the outcome of a call on the guild: the guild after it and the error
\* ("" is nil)
Outcome(g, err) == [guild |-> g, err |-> err]

\* g.RemoveChannelFromIgnored(channelId)
RemoveChannelFromIgnored(g, channelId) ==
    IF CleanId(channelId) = <<>> THEN Outcome(g, "provided ID is invalid")
    ELSE IF ~ChannelIsIgnored(g, CleanId(channelId)) THEN Outcome(g, "channel is not ignored")
    ELSE Outcome([g EXCEPT !.IgnoredChannels = RemoveItem(@, CleanId(channelId))], "")

\* AddChannelToWhitelist after the append: an ignored channel leaves the
\* ignored list
unignoreChannel(g, id) ==
    IF ChannelIsIgnored(g, id) THEN RemoveChannelFromIgnored(g, id) ELSE Outcome(g, "")

\* g.AddChannelToWhitelist(channelId)
AddChannelToWhitelist(g, channelId) ==
    IF CleanId(channelId) = <<>> THEN Outcome(g, "provided ID is invalid")
    ELSE IF ~GetChannelOk(CleanId(channelId)) THEN Outcome(g, "channel not found")
    ELSE IF ChannelIsWhitelisted(g, CleanId(channelId))
    THEN Outcome(g, "channel is already whitelisted")
    ELSE unignoreChannel([g EXCEPT !.WhitelistedChannels = Append(@, CleanId(channelId))],
                         CleanId(channelId))

\* g.RemoveChannelFromWhitelist(channelId)
RemoveChannelFromWhitelist(g, channelId) ==
    IF CleanId(channelId) = <<>> THEN Outcome(g, "provided ID is invalid")
    ELSE IF ~ChannelIsWhitelisted(g, CleanId(channelId))
    THEN Outcome(g, "channel is already whitelisted")
    ELSE Outcome([g EXCEPT !.WhitelistedChannels = RemoveItem(@, CleanId(channelId))], "")

\* g.RemoveMemberOrRoleFromIgnored(remId)
RemoveMemberOrRoleFromIgnored(g, remId) ==
    IF CleanId(remId) = <<>> THEN Outcome(g, "provided ID is invalid")
    ELSE IF ~MemberOrRoleIsIgnored(g, CleanId(remId))
    THEN Outcome(g, "id is not ignored in this guild; nothing to remove")
    ELSE Outcome([g EXCEPT !.IgnoredIds = RemoveItem(@, CleanId(remId))], "")

\* AddMemberOrRoleToWhitelist after the append: an ignored ID leaves the
\* ignored list
unignoreId(g, id) ==
    IF MemberOrRoleIsIgnored(g, id) THEN RemoveMemberOrRoleFromIgnored(g, id)
    ELSE Outcome(g, "")

\* g.AddMemberOrRoleToWhitelist(addId)
AddMemberOrRoleToWhitelist(g, addId) ==
    IF ~IsMember(addId) /\ ~IsRole(addId)
    THEN Outcome(g, "provided ID is neither a member or a role")
    ELSE IF CleanId(addId) = <<>> THEN Outcome(g, "provided ID is invalid")
    ELSE IF MemberOrRoleIsWhitelisted(g, CleanId(addId))
    THEN Outcome(g, "id is already whitelisted in this guild; nothing to add")
    ELSE unignoreId([g EXCEPT !.WhitelistIds = Append(@, CleanId(addId))], CleanId(addId))

\* g.RemoveMemberOrRoleFromWhitelist(remId)
RemoveMemberOrRoleFromWhitelist(g, remId) ==
    IF CleanId(remId) = <<>> THEN Outcome(g, "provided ID is invalid")
    ELSE IF ~MemberOrRoleIsWhitelisted(g, CleanId(remId))
    THEN Outcome(g, "id is not whitelisted in this guild; nothing to remove")
    ELSE Outcome([g EXCEPT !.WhitelistIds = RemoveItem(@, CleanId(remId))], "")

\* a guild as its file gives it, and what Discord knows of the guild: its
\* channels, its member (if any) with the member's roles, its role
InitGuild ==
    /\ NoCommand
    /\ pc = "guild"
    /\ NoCalls
    /\ guild \in [WhitelistedChannels : ListsOver(Snowflakes),
                  IgnoredChannels : ListsOver(Snowflakes),
                  WhitelistIds : ListsOver({MemberId, RoleId}),
                  IgnoredIds : ListsOver({MemberId, RoleId})]
    /\ discord \in [channels : SUBSET Snowflakes, members : SUBSET {MemberId},
                    memberRoles : SUBSET {RoleId}, roles : {{RoleId}}]
    /\ lastCall = [fn |-> "none"]
    /\ Others({"guild"})

\* the call fn(id) on the guild ends as the outcome o tells
GuildCall(fn, id, o) ==
    /\ pc = "guild"
    /\ lastCall.fn = "none"
    /\ guild' = o.guild
    /\ lastCall' = [fn |-> fn, id |-> id, err |-> o.err, before |-> guild]
    /\ UNCHANGED <<infoArgs, fullArgs, pc, ret, ret2, splitVars, accessorVars, discord>>
    /\ Frame({"guild"})

CallAddChannelToWhitelist ==
    \E id \in Snowflakes :
        GuildCall("AddChannelToWhitelist", id, AddChannelToWhitelist(guild, id))
CallRemoveChannelFromWhitelist ==
    \E id \in Snowflakes :
        GuildCall("RemoveChannelFromWhitelist", id, RemoveChannelFromWhitelist(guild, id))
CallAddMemberOrRoleToWhitelist ==
    \E id \in {MemberId, RoleId} :
        GuildCall("AddMemberOrRoleToWhitelist", id, AddMemberOrRoleToWhitelist(guild, id))
CallRemoveMemberOrRoleFromWhitelist ==
    \E id \in {MemberId, RoleId} :
        GuildCall("RemoveMemberOrRoleFromWhitelist", id,
                  RemoveMemberOrRoleFromWhitelist(guild, id))

NextGuild ==
    \/ CallAddChannelToWhitelist
    \/ CallRemoveChannelFromWhitelist
    \/ CallAddMemberOrRoleToWhitelist
    \/ CallRemoveMemberOrRoleFromWhitelist

SpecGuild == InitGuild /\ [][NextGuild]_vars

\* --------------------------------------------- providers/fs/fs.go: save
\* the goroutines that call save for the same guild
Savers == {1, 2}

\* the mutexes: the one an earlier save left in the map, and the one each
\* goroutine makes
OldMutex == 0
MutexIds == {OldMutex} \cup Savers

\* no entry in saveLock
NoMutex == 0 - 1

\* a goroutine about to call save
Calling == [at |-> "check", deferred |-> NoMutex, held |-> NoMutex]

\* the guild was saved before (the map holds its mutex) or never; no mutex is
\* locked; every goroutine is about to call save
InitSave ==
    /\ NoCommand
    /\ pc = "save"
    /\ NoCalls
    /\ saveLock \in {NoMutex, OldMutex}
    /\ mutexes = [m \in MutexIds |-> "unlocked"]
    /\ savers = [p \in Savers |-> Calling]
    /\ Others({"save"})

\* what a step of save leaves alone
SaveFrame ==
    /\ UNCHANGED <<infoArgs, fullArgs, pc, ret, ret2, splitVars, accessorVars>>
    /\ Frame({"save"})

\* if _, ok := saveLock[g.ID]; !ok
CheckLock(p) ==
    /\ pc = "save"
    /\ savers[p].at = "check"
    /\ savers' = [savers EXCEPT ![p].at = IF saveLock = NoMutex THEN "create" ELSE "defer"]
    /\ UNCHANGED <<saveLock, mutexes>>
    /\ SaveFrame

\* saveLock[g.ID] = &sync.Mutex{}
CreateLock(p) ==
    /\ pc = "save"
    /\ savers[p].at = "create"
    /\ saveLock' = p
    /\ mutexes' = [mutexes EXCEPT ![p] = "unlocked"]
    /\ savers' = [savers EXCEPT ![p].at = "defer"]
    /\ SaveFrame

\* defer saveLock[g.ID].Unlock(): the mutex to unlock is read now
DeferUnlock(p) ==
    /\ pc = "save"
    /\ savers[p].at = "defer"
    /\ savers' = [savers EXCEPT ![p].at = "lock", ![p].deferred = saveLock]
    /\ UNCHANGED <<saveLock, mutexes>>
    /\ SaveFrame

\* saveLock[g.ID].Lock(): waits while the mutex found in the map is locked
LockStep(p) ==
    /\ pc = "save"
    /\ savers[p].at = "lock"
    /\ mutexes[saveLock] = "unlocked"
    /\ mutexes' = [mutexes EXCEPT ![saveLock] = "locked"]
    /\ savers' = [savers EXCEPT ![p].at = "write", ![p].held = saveLock]
    /\ UNCHANGED saveLock
    /\ SaveFrame

\* the guild is marshalled and its file written
WriteFile(p) ==
    /\ pc = "save"
    /\ savers[p].at = "write"
    /\ savers' = [savers EXCEPT ![p].at = "unlock"]
    /\ UNCHANGED <<saveLock, mutexes>>
    /\ SaveFrame

\* the deferred Unlock runs: Unlock of a mutex that is not locked is a fatal
\* error of the run-time; Unlock of a locked mutex unlocks it, whoever holds it
UnlockStep(p) ==
    /\ pc = "save"
    /\ savers[p].at = "unlock"
    /\ IF mutexes[savers[p].deferred] = "unlocked"
       THEN /\ savers' = [savers EXCEPT ![p].at = "fatal"]
            /\ UNCHANGED mutexes
       ELSE /\ savers' = [savers EXCEPT ![p].at = "unlocked"]
            /\ mutexes' = [mutexes EXCEPT ![savers[p].deferred] = "unlocked"]
    /\ UNCHANGED saveLock
    /\ SaveFrame

\* save returns; the goroutine saves the guild once more later
SaveReturns(p) ==
    /\ pc = "save"
    /\ savers[p].at = "unlocked"
    /\ savers' = [savers EXCEPT ![p] = Calling]
    /\ UNCHANGED <<saveLock, mutexes>>
    /\ SaveFrame

NextSave ==
    \/ \E p \in Savers : CheckLock(p)
    \/ \E p \in Savers : CreateLock(p)
    \/ \E p \in Savers : DeferUnlock(p)
    \/ \E p \in Savers : LockStep(p)
    \/ \E p \in Savers : WriteFile(p)
    \/ \E p \in Savers : UnlockStep(p)
    \/ \E p \in Savers : SaveReturns(p)

SpecSave == InitSave /\ [][NextSave]_vars

\* ------------------------------- workers.go, core.go: graceful termination
\* the background workers registered with AddWorker
Workers == {1, 2}

\* startWorkers has made a mutex for every worker and started its goroutine;
\* no TERM signal has come
InitShutdown ==
    /\ NoCommand
    /\ pc = "workers"
    /\ NoCalls
    /\ continueLoop = TRUE
    /\ workerLock = [w \in Workers |-> "unlocked"]
    /\ workers = [w \in Workers |-> [at |-> "start", synced |-> FALSE]]
    /\ shutdown = [at |-> "running", pending |-> {}, passed |-> {}, holding |-> 0]
    /\ Others({"workers"})

\* what a step of a worker or of the termination leaves alone
WorkersFrame ==
    /\ UNCHANGED <<infoArgs, fullArgs, pc, ret, ret2, splitVars, accessorVars>>
    /\ Frame({"workers"})

\* workerLock[i].Lock() of the worker's goroutine.  A Lock that follows the
\* Unlock of the waiting goroutine is ordered after the write of continueLoop
WorkerLocks(w) ==
    /\ pc = "workers"
    /\ workers[w].at = "start"
    /\ workerLock[w] = "unlocked"
    /\ workerLock' = [workerLock EXCEPT ![w] = "worker"]
    /\ workers' = [workers EXCEPT ![w].at = "check", ![w].synced = w \in shutdown.passed]
    /\ UNCHANGED <<continueLoop, shutdown>>
    /\ WorkersFrame

\* the values a read of continueLoop by worker w can give: the flag is written
\* by the main goroutine and read by the worker without synchronisation, so a
\* read that is not ordered after the write may still give the old value true
ReadsOfContinueLoop(w) ==
    IF workers[w].synced THEN {continueLoop} ELSE {continueLoop, TRUE}

\* for continueLoop: the test of the worker's loop
WorkerChecks(w) ==
    /\ pc = "workers"
    /\ workers[w].at = "check"
    /\ \E seen \in ReadsOfContinueLoop(w) :
           workers' = [workers EXCEPT ![w].at = IF seen THEN "call" ELSE "unlock"]
    /\ UNCHANGED <<continueLoop, workerLock, shutdown>>
    /\ WorkersFrame

\* worker() runs and returns
WorkerReturns(w) ==
    /\ pc = "workers"
    /\ workers[w].at = "call"
    /\ workers' = [workers EXCEPT ![w].at = "sleep"]
    /\ UNCHANGED <<continueLoop, workerLock, shutdown>>
    /\ WorkersFrame

\* time.Sleep(time.Second)
WorkerSleeps(w) ==
    /\ pc = "workers"
    /\ workers[w].at = "sleep"
    /\ workers' = [workers EXCEPT ![w].at = "check"]
    /\ UNCHANGED <<continueLoop, workerLock, shutdown>>
    /\ WorkersFrame

\* workerLock[i].Unlock() after the loop
WorkerUnlocks(w) ==
    /\ pc = "workers"
    /\ workers[w].at = "unlock"
    /\ workerLock' = [workerLock EXCEPT ![w] = "unlocked"]
    /\ workers' = [workers EXCEPT ![w].at = "exited"]
    /\ UNCHANGED <<continueLoop, shutdown>>
    /\ WorkersFrame

\* a TERM signal arrives: continueLoop = false, and the goroutine that waits
\* for the workers is started
Terminate ==
    /\ pc = "workers"
    /\ shutdown.at = "running"
    /\ continueLoop' = FALSE
    /\ shutdown' = [shutdown EXCEPT !.at = "waiting", !.pending = Workers]
    /\ UNCHANGED <<workerLock, workers>>
    /\ WorkersFrame

\* lock.Lock() in the range over workerLock, in the order the map gives
WaiterLocks(w) ==
    /\ pc = "workers"
    /\ shutdown.at = "waiting"
    /\ shutdown.holding = 0
    /\ w \in shutdown.pending
    /\ workerLock[w] = "unlocked"
    /\ workerLock' = [workerLock EXCEPT ![w] = "waiter"]
    /\ shutdown' = [shutdown EXCEPT !.holding = w]
    /\ UNCHANGED <<continueLoop, workers>>
    /\ WorkersFrame

\* lock.Unlock(); after the last mutex all routines count as exited
WaiterUnlocks ==
    /\ pc = "workers"
    /\ shutdown.at = "waiting"
    /\ shutdown.holding # 0
    /\ workerLock' = [workerLock EXCEPT ![shutdown.holding] = "unlocked"]
    /\ shutdown' = [at |-> IF shutdown.pending = {shutdown.holding} THEN "done" ELSE "waiting",
                    pending |-> shutdown.pending \ {shutdown.holding},
                    passed |-> shutdown.passed \cup {shutdown.holding},
                    holding |-> 0]
    /\ UNCHANGED <<continueLoop, workers>>
    /\ WorkersFrame

\* the steps of worker w
WorkerStep(w) ==
    \/ WorkerLocks(w)
    \/ WorkerChecks(w)
    \/ WorkerReturns(w)
    \/ WorkerSleeps(w)
    \/ WorkerUnlocks(w)

\* the steps of the goroutine that waits for the workers
WaiterStep == (\E w \in Workers : WaiterLocks(w)) \/ WaiterUnlocks

NextShutdown ==
    \/ \E w \in Workers : WorkerLocks(w)
    \/ \E w \in Workers : WorkerChecks(w)
    \/ \E w \in Workers : WorkerReturns(w)
    \/ \E w \in Workers : WorkerSleeps(w)
    \/ \E w \in Workers : WorkerUnlocks(w)
    \/ Terminate
    \/ \E w \in Workers : WaiterLocks(w)
    \/ WaiterUnlocks

SpecShutdown == InitShutdown /\ [][NextShutdown]_vars

\* every goroutine that can take a step takes one: the scheduler runs each
\* worker and the waiting goroutine, and every call of worker() returns
SpecShutdownFair ==
    /\ SpecShutdown
    /\ \A w \in Workers : WF_vars(WorkerStep(w))
    /\ WF_vars(WaiterStep)

\* ================================================================ claims
\* the ArgInfo registered under key k
Info(k) == infoArgs.values[k]

\* strings.Fields-like split of an invocation string into its non-empty words
RECURSIVE FieldsOf(_, _)
FieldsOf(s, word) ==
    IF s = <<>> THEN (IF word = <<>> THEN <<>> ELSE <<word>>)
    ELSE IF Head(s) = SP
    THEN (IF word = <<>> THEN <<>> ELSE <<word>>) \o FieldsOf(Tail(s), <<>>)
    ELSE FieldsOf(Tail(s), Append(word, Head(s)))

InputWords == FieldsOf(fullArgs, <<>>)

\* k is a positional option (no flag, no Content)
IsOption(k) == ~Info(k).Flag /\ Info(k).Match = ArgOption

\* k is a switch flag
IsSwitch(k) == Info(k).Flag /\ Info(k).Match = ArgFlag

\* k is a Content entry
IsContent(k) == ~Info(k).Flag /\ Info(k).Match = ArgContent

\* the invocation string holds nothing a guard's extraction pattern can match:
\* no digit for Int, no <#digits> mention and no 18-digit id for Channel
NoMatchFor(typeguard) ==
    CASE typeguard = IntGuard -> \A i \in 1..Len(fullArgs) : fullArgs[i] \notin Digits
      [] typeguard = Channel  -> /\ ~FindStringMatch("channel", fullArgs).found
                                 /\ ~FindStringMatch("id", fullArgs).found
      [] OTHER                -> FALSE

\* C1: ParseArguments returns a result for every schema and every input: no
\* call ends in a panic (index out of range, slice bounds, nil pattern).
C1_NeverPanics == pc = "parsed" => ~ret.panic

\* C2: a required option with a pattern-bearing type guard for which the input
\* holds no match is bound to its declared default, for the empty input too.
C2_RequiredTypedGetsDefault ==
    pc = "parsed" =>
        \A k \in DOMAIN infoArgs.values :
            (IsOption(k) /\ Info(k).Required /\ Info(k).TypeGuard # String
                /\ NoMatchFor(Info(k).TypeGuard))
            => (k \in DOMAIN ret.ar /\ ret.ar[k] = Info(k).DefaultOption)

\* the schema is String options, required ones first, then one Content entry
StringsThenContent ==
    LET ks == infoArgs.keys
        n == Len(ks) - 1
    IN  /\ Len(ks) >= 1
        /\ IsContent(ks[Len(ks)])
        /\ \A i \in 1..n : IsOption(ks[i]) /\ Info(ks[i]).TypeGuard = String
        /\ \A i, j \in 1..n : (i < j /\ Info(ks[j]).Required) => Info(ks[i]).Required

\* C3: when the matcher reaches the Content key, Content is bound to exactly
\* the tokens that earlier options did not consume, in order, joined by single
\* spaces: here, with n String options before it, the tokens after the n-th.
C3_ContentIsTheUnconsumedTokens ==
    LET ks == infoArgs.keys
        n == Len(ks) - 1
        tokens == createSplitString(fullArgs)
    IN  (pc = "parsed" /\ StringsThenContent /\ Len(tokens) > n)
        => /\ ~ret.panic
           /\ ks[Len(ks)] \in DOMAIN ret.ar
           /\ ret.ar[ks[Len(ks)]] = Join(SubSeq(tokens, n + 1, Len(tokens)), <<SP>>)

\* C4: content capture binds the Content key and nothing else: the Content key
\* is in the result, and every binding made before the capture is kept.
C4_ContentCaptureBindsOnlyContent ==
    (pc = "parsed" /\ ~ret.panic /\ ret.moreContent)
    => /\ \E k \in DOMAIN ret.ar : IsContent(k)
       /\ \A k \in DOMAIN ret.found : k \in DOMAIN ret.ar /\ ret.ar[k] = ret.found[k]

\* the schema is one or more switch flags followed by one Content entry
FlagsThenContent ==
    LET ks == infoArgs.keys
    IN  /\ Len(ks) >= 2
        /\ IsContent(ks[Len(ks)])
        /\ \A i \in 1..(Len(ks) - 1) : IsSwitch(ks[i])

\* w is the text of a registered switch flag
IsFlagWord(w) == \E k \in DOMAIN infoArgs.values : IsSwitch(k) /\ w = Info(k).Regex

\* w is an ordinary word: no quote in it and no flag text
IsOrdinaryWord(w) ==
    /\ ~Contains(w, QT)
    /\ \A k \in DOMAIN infoArgs.values : IsSwitch(k) => IndexOf(w, Info(k).Regex) = 0

\* C5: with switch flags followed by Content, and an input of flag occurrences
\* and at least one ordinary word, Content is the ordinary words in input
\* order joined by single spaces.
C5_ContentIsTheOrdinaryWords ==
    LET ks == infoArgs.keys
        ws == InputWords
    IN  (/\ pc = "parsed"
         /\ FlagsThenContent
         /\ \A i \in 1..Len(ws) : IsFlagWord(ws[i]) \/ IsOrdinaryWord(ws[i])
         /\ \E i \in 1..Len(ws) : IsOrdinaryWord(ws[i]))
        => /\ ~ret.panic
           /\ ks[Len(ks)] \in DOMAIN ret.ar
           /\ ret.ar[ks[Len(ks)]] = Join(SelectSeq(ws, IsOrdinaryWord), <<SP>>)

\* the schema is one switch flag and one Content entry, in either order
OneFlagOneContent ==
    LET ks == infoArgs.keys
    IN  /\ Len(ks) = 2
        /\ \/ IsSwitch(ks[1]) /\ IsContent(ks[2])
           \/ IsContent(ks[1]) /\ IsSwitch(ks[2])

\* the flag key and the Content key of such a schema
TheFlagKey == CHOOSE k \in DOMAIN infoArgs.values : IsSwitch(k)
TheContentKey == CHOOSE k \in DOMAIN infoArgs.values : IsContent(k)

\* s is one or more non-empty words joined by single spaces
IsWordSequence(s) == s # <<>> /\ Join(FieldsOf(s, <<>>), <<SP>>) = s

\* the word sequences t for which the invocation string is '--flag t' or
\* 't --flag', t not containing the flag
FlagTexts ==
    LET f == Info(TheFlagKey).Regex
        n == Len(fullArgs)
        m == Len(f) + 1
        after  == IF n > m /\ SubSeq(fullArgs, 1, m) = f \o <<SP>>
                  THEN {SubSeq(fullArgs, m + 1, n)} ELSE {}
        before == IF n > m /\ SubSeq(fullArgs, n - m + 1, n) = <<SP>> \o f
                  THEN {SubSeq(fullArgs, 1, n - m)} ELSE {}
    IN  {t \in after \cup before : IsWordSequence(t) /\ IndexOf(t, f) = 0}

\* the result that binds the flag to "true" and Content to t, and nothing else
FlagTrueContent(t) ==
    /\ ~ret.panic
    /\ DOMAIN ret.ar = {TheFlagKey, TheContentKey}
    /\ ret.ar[TheFlagKey] = <<"t", "r", "u", "e">>
    /\ ret.ar[TheContentKey] = t

\* C6 as stated: for one switch flag and a Content entry and any word
\* sequence t without the flag, '--flag t' and 't --flag' both give
\* Content == t and flag == "true".
C6_FlagPositionIndependent_Original ==
    (pc = "parsed" /\ OneFlagOneContent) => \A t \in FlagTexts : FlagTrueContent(t)

\* C6 amended: the same for every word sequence t that holds no double quote
\* (the tokenizer strips the quotes of quoted words, so Content differs from t
\* when t is quoted).
C6_FlagPositionIndependent ==
    (pc = "parsed" /\ OneFlagOneContent)
    => \A t \in FlagTexts : ~Contains(t, QT) => FlagTrueContent(t)

\* C6 witness: 't --flag' with a t of two words has been parsed, and Content is t
C6_Witness ==
    /\ pc = "parsed" /\ OneFlagOneContent
    /\ \E t \in FlagTexts :
           /\ ~Contains(t, QT) /\ Len(FieldsOf(t, <<>>)) = 2
           /\ fullArgs = t \o <<SP>> \o Info(TheFlagKey).Regex
           /\ ret.ar[TheContentKey] = t

\* the schema is one or more required String options and nothing else
AllRequiredStrings ==
    /\ Len(infoArgs.keys) >= 1
    /\ \A k \in DOMAIN infoArgs.values :
           IsOption(k) /\ Info(k).TypeGuard = String /\ Info(k).Required

\* the invocation string is exactly n unquoted words joined by single spaces
IsUnquotedWords(n) ==
    /\ Len(InputWords) = n
    /\ Join(InputWords, <<SP>>) = fullArgs
    /\ ~Contains(fullArgs, QT)

\* C7: with n required String options and nothing else, an input of exactly n
\* unquoted space-separated words binds the i-th key to the i-th word, for
\* every i, and binds nothing else.
C7_StringsBoundInOrder ==
    (pc = "parsed" /\ AllRequiredStrings /\ IsUnquotedWords(Len(infoArgs.keys)))
    => /\ ~ret.panic
       /\ DOMAIN ret.ar = {infoArgs.keys[i] : i \in 1..Len(infoArgs.keys)}
       /\ \A i \in 1..Len(infoArgs.keys) : ret.ar[infoArgs.keys[i]] = InputWords[i]

\* C7 witness: three required String options have been bound to three words,
\* the first two of them different
C7_Witness ==
    /\ pc = "parsed" /\ AllRequiredStrings /\ IsUnquotedWords(3)
    /\ Len(infoArgs.keys) = 3
    /\ InputWords[1] # InputWords[2]
    /\ ret.ar[infoArgs.keys[2]] = InputWords[2]

\* the quoted phrases and integer words for which the invocation string is
\* "phrase" int: phrase is two or more digit-free words, int is all digits
QuotedThenInt ==
    {pr \in {<<SubSeq(fullArgs, 2, i - 2), SubSeq(fullArgs, i + 1, Len(fullArgs))>> :
                 i \in {j \in 4..(Len(fullArgs) - 1) : fullArgs[j] = SP}} :
        /\ fullArgs[1] = QT
        /\ fullArgs[Len(fullArgs) - Len(pr[2]) - 1] = QT
        /\ IsWordSequence(pr[1]) /\ Len(FieldsOf(pr[1], <<>>)) >= 2
        /\ \A j \in 1..Len(pr[1]) : pr[1][j] \notin Digits \cup {QT}
        /\ \A j \in 1..Len(pr[2]) : pr[2][j] \in Digits}

\* C8: for the schema [msg: String required, n: Int required] and an input
\* made of a quoted multi-word phrase followed by an integer word, msg is bound
\* to the phrase without its quotes and n to the integer word.
C8_QuotedPhraseIsOneValue ==
    LET ks == infoArgs.keys
    IN  (/\ pc = "parsed"
         /\ Len(ks) = 2
         /\ IsOption(ks[1]) /\ Info(ks[1]).TypeGuard = String /\ Info(ks[1]).Required
         /\ IsOption(ks[2]) /\ Info(ks[2]).TypeGuard = IntGuard /\ Info(ks[2]).Required)
        => \A pr \in QuotedThenInt :
               /\ ~ret.panic
               /\ ks[1] \in DOMAIN ret.ar /\ ret.ar[ks[1]] = pr[1]
               /\ ks[2] \in DOMAIN ret.ar /\ ret.ar[ks[2]] = pr[2]

\* C9: an optional option with a typed (non-String) guard for which the input
\* holds no match stays unset: its key is absent from the result.
C9_OptionalTypedStaysUnset ==
    (pc = "parsed" /\ ~ret.panic) =>
        \A k \in DOMAIN infoArgs.values :
            (IsOption(k) /\ ~Info(k).Required /\ Info(k).TypeGuard # String
                /\ NoMatchFor(Info(k).TypeGuard))
            => k \notin DOMAIN ret.ar

\* C10: parsing the same input twice against the same schema gives equal
\* results (equal bindings, or a panic both times), and no call changes the
\* schema: its entries and its key order are after a call what they were before.
C10_ParseIsRepeatable ==
    [][/\ (pc' # pc) => infoArgs' = infoArgs
       /\ (pc' = "reparsed") => ret2' = ret']_vars

\* C10 witness: a parse that removed keys and captured content has been repeated
C10_Witness ==
    /\ pc = "reparsed"
    /\ ~ret2.panic /\ ret2.moreContent
    /\ Len(infoArgs.keys) = 3
    /\ Cardinality(DOMAIN ret2.ar) >= 2

\* the flag extraction of the message dispatched: what findAllFlags returned
\* for it (a dispatch leaves the schema as it was)
FlagPass == findAllFlags(fullArgs, infoArgs.keys, infoArgs, EmptyArguments)

\* the flags of the schema whose pattern matches the invocation string
MatchedFlags ==
    {k \in DOMAIN infoArgs.values : Info(k).Flag /\ FindIndex(fullArgs, Info(k).Regex) # 0}

\* a non-empty message has been dispatched to a command that has arguments, so
\* that flag extraction has run
FlagsExtracted == pc = "parsed" /\ fullArgs # <<>> /\ Len(infoArgs.keys) >= 1

\* C11: every matched flag span is removed before tokenization: no token handed
\* to positional or content matching contains the text of a matched flag, also
\* when the input consists of flags only.
C11_NoFlagTextInTokens ==
    (FlagsExtracted /\ ~FlagPass.panic)
    => \A i \in 1..Len(FlagPass.splitString) : \A k \in MatchedFlags :
           FindIndex(FlagPass.splitString[i], Info(k).Regex) = 0

\* the value the invocation string gives the value flag k: the text after
\* the first space of the match of its pattern, less the quotes around it
FlagValueOf(k) == Trim(AfterFirstSpace(MatchText(fullArgs, Info(k).Regex)), QT)

\* what the statement binds the flag k to
FlagBinding(k) ==
    IF Info(k).Match = ArgOption
    THEN IF k \in MatchedFlags /\ checkTypeGuard(FlagValueOf(k), Info(k).TypeGuard)
         THEN FlagValueOf(k)
         ELSE Info(k).DefaultOption
    ELSE IF k \in MatchedFlags THEN <<"t", "r", "u", "e">>
    ELSE <<"f", "a", "l", "s", "e">>

\* C12: after flag extraction on a non-empty input every Flag key is bound: a
\* value flag to its extracted, quote-stripped value when the type guard takes
\* it and to its default when the value is invalid or the flag is absent; a
\* switch flag to "true" when present and to "false" when absent.
C12_EveryFlagIsBound ==
    (FlagsExtracted /\ ~FlagPass.panic)
    => \A k \in DOMAIN infoArgs.values :
           Info(k).Flag => (k \in DOMAIN FlagPass.args /\ FlagPass.args[k] = FlagBinding(k))

\* the schema keys whose entries are not flags, in schema order
NonFlagKeys == SelectSeq(infoArgs.keys, LAMBDA k : ~Info(k).Flag)

\* C13: flag extraction hands on, as remaining keys, exactly the schema keys
\* whose entries are not flags, in schema order, wherever the flags stand.
C13_RemainingKeysAreTheNonFlags ==
    (FlagsExtracted /\ NonFlagKeys # <<>>)
    => (~FlagPass.panic /\ FlagPass.keys = NonFlagKeys)

\* every key of the schema is a flag
AllFlags == Len(infoArgs.keys) >= 1 /\ \A k \in DOMAIN infoArgs.values : Info(k).Flag

\* C14: when every schema key is a Flag the parse returns exactly the bindings
\* of flag extraction and captures no content, whether or not the flags are
\* declared required.
C14_AllFlagsShortCircuit ==
    (FlagsExtracted /\ AllFlags)
    => (~ret.panic /\ ~ret.moreContent /\ ret.ar = FlagPass.args)

\* the schema is two required options with the same pattern-bearing type guard
TwoTypedOptions ==
    /\ Len(infoArgs.keys) = 2
    /\ \A k \in DOMAIN infoArgs.values :
           IsOption(k) /\ Info(k).Required /\ Info(k).TypeGuard \in {IntGuard, Channel}
    /\ Info(infoArgs.keys[1]).TypeGuard = Info(infoArgs.keys[2]).TypeGuard

\* the word w is in whole what the extraction pattern of the guard matches
IsMatchOf(w, typeguard) ==
    CASE typeguard = IntGuard -> w # <<>> /\ \A i \in 1..Len(w) : w[i] \in Digits
      [] typeguard = Channel  -> /\ FindStringMatch("channel", w).found
                                 /\ FindStringMatch("channel", w).match = w
      [] OTHER                -> FALSE

\* the invocation string is one such word twice, with one space between
TwoEqualTokens ==
    /\ Len(InputWords) = 2
    /\ InputWords[1] = InputWords[2]
    /\ fullArgs = InputWords[1] \o <<SP>> \o InputWords[2]
    /\ IsMatchOf(InputWords[1], Info(infoArgs.keys[1]).TypeGuard)

\* C15: a successful pattern search for a typed option removes only the matched
\* occurrence from the tokens: two typed options of the same type parsing two
\* equal tokens are both bound to the match.
C15_EqualTokensBothBound ==
    (pc = "parsed" /\ TwoTypedOptions /\ TwoEqualTokens)
    => /\ ~ret.panic
       /\ \A i \in 1..2 : /\ infoArgs.keys[i] \in DOMAIN ret.ar
                          /\ ret.ar[infoArgs.keys[i]] = InputWords[i]

\* the positions of the double quotes of s
QuotesOf(s) == {i \in 1..Len(s) : s[i] = QT}

\* the quote at position q of s opens a span (it is the first, third, ... quote)
Opens(s, q) == Cardinality({p \in QuotesOf(s) : p <= q}) % 2 = 1

\* the double quotes of s are balanced and sit at word boundaries: an opening
\* quote starts a word, a closing quote ends one, and no span is empty
WellQuoted(s) ==
    /\ Cardinality(QuotesOf(s)) % 2 = 0
    /\ \A q \in QuotesOf(s) :
           IF Opens(s, q)
           THEN (q = 1 \/ s[q - 1] = SP) /\ s[q + 1] # QT
           ELSE q = Len(s) \/ s[q + 1] = SP

\* position of the first c in s, Len(s) + 1 when there is none
FirstOf(s, c) ==
    IF Contains(s, c) THEN CHOOSE i \in 1..Len(s) : s[i] = c /\ \A j \in 1..(i - 1) : s[j] # c
    ELSE Len(s) + 1

\* the tokens the statement gives a well-quoted string: the text between the
\* quotes for a quoted span, the word for an unquoted word, in input order
RECURSIVE QuotedFields(_)
QuotedFields(s) ==
    IF s = <<>> THEN <<>>
    ELSE IF Head(s) = SP THEN QuotedFields(Tail(s))
    ELSE IF Head(s) = QT
    THEN <<SubSeq(s, 2, FirstOf(Tail(s), QT))>>
         \o QuotedFields(SubSeq(s, FirstOf(Tail(s), QT) + 2, Len(s)))
    ELSE <<SubSeq(s, 1, FirstOf(s, SP) - 1)>> \o QuotedFields(SubSeq(s, FirstOf(s, SP), Len(s)))

\* C16: for input whose double quotes are balanced and sit at word boundaries,
\* createSplitString yields one token per quoted span, equal to the text between
\* the quotes, one token per unquoted word, in input order, and no empty token.
C16_TokensOfWellQuotedInput ==
    (pc = "tokens" /\ WellQuoted(splitArg))
    => /\ splitOut = QuotedFields(splitArg)
       /\ \A i \in 1..Len(splitOut) : splitOut[i] # <<>>

\* s has one double quote, which starts a word and has text other than spaces
\* after it: a quote that is opened and never closed
Unterminated(s) ==
    /\ Cardinality(QuotesOf(s)) = 1
    /\ \A q \in QuotesOf(s) : (q = 1 \/ s[q - 1] = SP)
                              /\ Trim(SubSeq(s, q + 1, Len(s)), SP) # <<>>

\* the text of s after its first double quote, less the spaces around it
AfterQuote(s) == Trim(SubSeq(s, FirstOf(s, QT) + 1, Len(s)), SP)

\* C17: for input with an opening double quote that is never closed, the text
\* from the quote to the end of the string is one value of the returned token
\* sequence, its last: it is not dropped.
C17_UnterminatedQuoteIsKept ==
    (pc = "tokens" /\ Unterminated(splitArg))
    => /\ Len(splitOut) >= 1
       /\ Trim(Trim(splitOut[Len(splitOut)], QT), SP) = AfterQuote(splitArg)

\* what the required loop of findAllOptionArgs leaves when flag extraction
\* returned f
RequiredPass(f) ==
    requiredLoop(f.keys, infoArgs,
                 [args |-> f.args, argString |-> f.splitString,
                  currentPos |-> 0, indexes |-> <<>>, reports |-> 0, exit |-> "run"], 0)

\* the optional loop is entered: f is what flag extraction returned, r1 what
\* the required loop left, rm the result of RemoveItems(keys, indexes)
OptionalPassRan(f, r1, rm) ==
    /\ ~f.panic /\ Len(f.keys) >= 1
    /\ r1.exit = "end" /\ ~rm.panic
    /\ r1.currentPos < Len(r1.argString)
    /\ Len(rm.slice) >= 1

\* what the optional loop leaves
OptionalPass(r1, rm) ==
    optionalLoop(rm.slice, infoArgs,
                 [r1 EXCEPT !.argString = SubSeq(@, r1.currentPos + 1, Len(@)),
                            !.currentPos = 0, !.indexes = <<>>, !.exit = "run"], 0)

\* the optional loop over the keys ks reached a key with required=true and
\* reported it: every key of ks is registered, so the report is not one of a
\* missing key
ReachedRequired(ks, r1, r2) ==
    /\ \A i \in 1..Len(ks) : HasKey(infoArgs, ks[i])
    /\ r2.reports > r1.reports

\* the key the optional loop over ks stopped at: the first with required=true
StopKey(ks) ==
    ks[CHOOSE i \in 1..Len(ks) :
           Info(ks[i]).Required /\ \A j \in 1..(i - 1) : ~Info(ks[j]).Required]

\* position of key k in the schema
PositionOf(k) == CHOOSE i \in 1..Len(infoArgs.keys) : infoArgs.keys[i] = k

\* the key stop and every later key of the schema that is not a flag are
\* unbound in the result, and the bindings of r2 are in it
StoppedAt(stop, r2) ==
    /\ ~ret.panic
    /\ \A k \in DOMAIN infoArgs.values :
           (PositionOf(k) >= PositionOf(stop) /\ ~Info(k).Flag) => k \notin DOMAIN ret.ar
    /\ \A k \in DOMAIN r2.args : k \in DOMAIN ret.ar /\ ret.ar[k] = r2.args[k]

\* C18: when the optional pass reaches a key with required=true the pass stops:
\* that key and every later key of the schema that is not a flag (a later
\* Content key too) are left unbound, and the bindings made before are kept.
C18_RequiredInOptionalPassStops ==
    FlagsExtracted =>
        LET f == FlagPass
            r1 == RequiredPass(f)
            rm == RemoveItems(f.keys, r1.indexes)
            r2 == OptionalPass(r1, rm)
        IN  (OptionalPassRan(f, r1, rm) /\ ReachedRequired(rm.slice, r1, r2))
            => StoppedAt(StopKey(rm.slice), r2)

\* C19: every schema that reaches the parser has unique names and at most one
\* Content entry, which is its last entry: registration lets no other through.
C19_SchemaIsWellFormed ==
    pc = "parsed" =>
        /\ \A i, j \in 1..Len(infoArgs.keys) :
               infoArgs.keys[i] = infoArgs.keys[j] => i = j
        /\ \A i \in 1..Len(infoArgs.keys) :
               IsContent(infoArgs.keys[i]) => i = Len(infoArgs.keys)

\* the zero value of the result type of the accessor fn
ZeroValue(fn) ==
    CASE fn = "StringValue" -> <<>>
      [] fn = "BoolValue"   -> FALSE
      [] OTHER              -> 0

\* the stored value cannot be converted by the accessor fn: it is absent, or
\* it is a string that is no number (no boolean) in decimal notation
NotConvertible(fn) ==
    \/ agValue.kind = "nil"
    \/ /\ agValue.kind = "string"
       /\ CASE fn \in {"IntValue", "Int64Value"} -> ~AtoiOk(agValue.s)
            [] fn = "FloatValue" -> ~ParseFloat(agValue.s).ok
            [] fn = "BoolValue"  -> agValue.s \notin BoolTrue \cup BoolFalse
            [] OTHER             -> FALSE

\* C20: the scalar accessors never raise: for every stored raw value (absent,
\* a string, a float, a boolean) each of them returns a value, and it returns
\* the zero value when the stored value cannot be converted.
C20_AccessorsNeverRaise ==
    pc = "cast" =>
        /\ ~agResult.panic
        /\ NotConvertible(agResult.fn) => agResult.value = ZeroValue(agResult.fn)

\* the text an entity accessor reads from the CommandArg, when reading it works
EntityText == StringValue(agValue).value

\* the entity accessor has nothing to resolve or no way to resolve it
NothingToResolve ==
    \/ EntityText = <<>>
    \/ CleanId(EntityText) = <<>>
    \/ session.isNil
    \/ CleanId(EntityText) \notin (session.cached \cup session.known)

\* the resolver failed: the ID was fine but the session is nil or knows nothing
ResolverFailed ==
    /\ CleanId(EntityText) # <<>>
    /\ \/ session.isNil
       \/ CleanId(EntityText) \notin (session.cached \cup session.known)

\* the accessor's lookup found the entity named by the CommandArg
LookupFound ==
    /\ ~session.isNil
    /\ CleanId(EntityText) # <<>>
    /\ CleanId(EntityText) \in (session.cached \cup session.known)
    /\ agResult.entity = Entity(CleanId(EntityText))

\* C21: every entity accessor returns without panicking; its error is non-nil
\* when the value is empty, holds no valid ID, the session is nil or the lookup
\* finds nothing; its error is nil only when the lookup found the entity; and
\* when the resolver failed the entity returned is non-nil and carries an ID
C21_EntityAccessorsReportFailure ==
    pc = "resolved" =>
        /\ ~agResult.panic
        /\ NothingToResolve => agResult.err # ""
        /\ agResult.err = "" => LookupFound
        /\ ResolverFailed => ~agResult.entity.isNil /\ agResult.entity.ID # <<>>

\* dispatch d has the result of its ParseArguments call
HasParsed(d) == dispatches[d].at \in {"handler", "load", "store", "done"}

\* every dispatch that has parsed holds what ParseArguments gives for its
\* argument string and the schema when nothing else runs
ResultsAsAlone ==
    \A d \in Dispatches :
        HasParsed(d) =>
            dispatches[d].result = ParseArguments(dispatches[d].args, dispatches[d].schema)

\* no shared variable written by one dispatch is read or written by the other
NoConflictingAccess ==
    \A v \in Shared : \A d \in accessed[v].w :
        (accessed[v].r \cup accessed[v].w) \subseteq {d}

\* C22: in every interleaving of two dispatches of the same command each
\* ParseArguments call returns what it returns alone, and no step of one
\* dispatch writes a variable the other reads or writes
C22_ConcurrentParsesDoNotInterfere ==
    pc = "dispatch" => ResultsAsAlone /\ NoConflictingAccess

\* the elements of slice at the 0-based positions not listed in indexes, in
\* order, from 1-based position i on
RECURSIVE Unlisted(_, _, _)
Unlisted(slice, indexes, i) ==
    IF i > Len(slice) THEN <<>>
    ELSE (IF \E n \in DOMAIN indexes : indexes[n] = i - 1 THEN <<>> ELSE <<slice[i]>>)
         \o Unlisted(slice, indexes, i + 1)

\* C23: for distinct ascending in-range indexes RemoveItems never fails and
\* returns the elements at the positions not listed, in their order: a slice
\* of len(slice) - len(indexes) elements, empty when every position is listed
C23_RemoveItemsRemovesTheListed ==
    pc = "removed" =>
        /\ ~removeRet.panic
        /\ removeRet.slice = Unlisted(removeArgs.slice, removeArgs.indexes, 1)
        /\ Len(removeRet.slice) = Len(removeArgs.slice) - Len(removeArgs.indexes)
        /\ Len(removeArgs.indexes) = Len(removeArgs.slice) => removeRet.slice = <<>>

\* the schema is a String option followed by a typed option
StringThenTyped ==
    /\ Len(infoArgs.keys) = 2
    /\ \A k \in DOMAIN infoArgs.values : IsOption(k)
    /\ Info(infoArgs.keys[1]).TypeGuard = String
    /\ Info(infoArgs.keys[2]).TypeGuard \in {IntGuard, Channel}

\* the invocation string is made of words that differ from each other, with
\* one space between them
DistinctWords ==
    /\ InputWords # <<>>
    /\ fullArgs = Join(InputWords, <<SP>>)
    /\ \A i, j \in DOMAIN InputWords : i # j => InputWords[i] # InputWords[j]

\* the word w is bound to both keys
BoundTwice(w, k1, k2) ==
    /\ k1 \in DOMAIN ret.ar /\ ret.ar[k1] = w
    /\ k2 \in DOMAIN ret.ar /\ ret.ar[k2] = w

\* C24: within one parse no input token is bound to two arguments: the token
\* a String option took by position is not the value a later typed option gets
\* from its pattern search
C24_NoTokenBoundTwice ==
    (pc = "parsed" /\ ~ret.panic /\ StringThenTyped /\ DistinctWords)
    => \A i \in DOMAIN InputWords :
           ~BoundTwice(InputWords[i], infoArgs.keys[1], infoArgs.keys[2])

\* the message is the guild's prefix followed by white space only
PrefixThenWhiteSpace ==
    /\ HasPrefix(extractArgs.message, extractArgs.prefix)
    /\ \A i \in (Len(extractArgs.prefix) + 1)..Len(extractArgs.message) :
           extractArgs.message[i] \in WhiteSpace

\* C25: ExtractCommand never fails: it returns two nil pointers, or a
\* lower-cased trigger without white space (and not empty) with the argument
\* text; a prefix followed by white space only gives two nil pointers
C25_ExtractCommandNeverFails ==
    pc = "extracted" =>
        /\ ~extractRet.panic
        /\ ~extractRet.isNil =>
               /\ extractRet.trigger # <<>>
               /\ extractRet.trigger = ToLower(extractRet.trigger)
               /\ \A i \in DOMAIN extractRet.trigger : extractRet.trigger[i] \notin WhiteSpace
        /\ PrefixThenWhiteSpace => extractRet.isNil

\* C26: a panic raised by the parser or by the handler inside commandHandler
\* is recovered by handleCommandError whatever its value: no panic leaves
\* commandHandler, and once commandHandler has returned from a panic the error
\* report has gone to the bot admins
C26_PanicIsRecovered ==
    pc = "deferred" =>
        /\ handling.at # "propagated"
        /\ (handling.at = "returned" /\ handling.panicked) => handling.reported = botAdmins

\* the text of the message that follows "<prefix><name> "
ArgumentText ==
    SubSeq(delivery.content, Len(DefaultPrefix) + Len(cmdInfo.Name) + 2, Len(delivery.content))

\* commandHandler is through with the message "<prefix><name> <args>" of a bot
\* admin for the registered command, which has a lower-case name and was
\* created without SetParent
AdminCommandMessage ==
    /\ pc = "running"
    /\ delivery.at \in {"returned", "crashed"}
    /\ delivery.author \in botAdmins
    /\ delivery.channelFound
    /\ cmdInfo.setParentCalls = 0
    /\ cmdInfo.Name = ToLower(cmdInfo.Name)
    /\ ToLower(cmdInfo.Name) \in DOMAIN registry.commands
    /\ HasPrefix(delivery.content, DefaultPrefix \o cmdInfo.Name \o <<SP>>)

\* commandHandler has returned after one call of the default handler with the
\* parsed argument text
HandlerCalledOnce ==
    /\ delivery.at = "returned"
    /\ delivery.calls = 1
    /\ delivery.args = ParseArguments(ArgumentText, infoArgs).ar

\* C27: commandHandler is through with a message "<prefix><name> <args>" of a
\* bot admin for a command created with CreateCommandInfo under a lower-case
\* name, without SetParent, and registered with AddCommand only after one call
\* of the default handler with Args = ParseArguments(args, schema)
C27_DispatchReachesHandler == AdminCommandMessage => HandlerCalledOnce

\* the last call was fn(id) for an ID that exists in the guild (as a channel,
\* or as a member or role) and was not in the list before
AddedNew(fn, list) ==
    /\ lastCall.fn = fn
    /\ ~InList(lastCall.id, lastCall.before[list])
    /\ IF fn = "AddChannelToWhitelist" THEN GetChannelOk(lastCall.id)
       ELSE IsMember(lastCall.id) \/ IsRole(lastCall.id)

\* C28: AddChannelToWhitelist(c) for an existing channel that is not in
\* WhitelistedChannels returns no error and leaves c in the list, whatever the
\* state before, the empty list included; likewise AddMemberOrRoleToWhitelist
\* and WhitelistIds
C28_AddToWhitelistAdds ==
    /\ AddedNew("AddChannelToWhitelist", "WhitelistedChannels")
           => lastCall.err = "" /\ InList(lastCall.id, guild.WhitelistedChannels)
    /\ AddedNew("AddMemberOrRoleToWhitelist", "WhitelistIds")
           => lastCall.err = "" /\ InList(lastCall.id, guild.WhitelistIds)

\* at most one goroutine is writing the guild's file
OneWriter == \A p, q \in Savers : savers[p].at = "write" /\ savers[q].at = "write" => p = q

\* a goroutine about to unlock, or through with it, unlocks the mutex it locked
UnlocksItsOwn ==
    \A p \in Savers :
        savers[p].at \in {"unlock", "unlocked", "fatal"} => savers[p].deferred = savers[p].held

\* C29: the lazily created per-guild mutex gives mutual exclusion to concurrent
\* save calls for one guild, the first calls (no mutex in the map yet)
\* included, and every Unlock is applied to a mutex its caller holds
C29_SaveIsMutuallyExclusive ==
    pc = "save" =>
        /\ OneWriter
        /\ UnlocksItsOwn
        /\ \A p \in Savers : savers[p].at # "fatal"

\* the waiting goroutine has locked and unlocked the mutex of every worker
AllWorkersPassed == shutdown.at = "done"

\* no call of worker() is in progress
NoWorkerCall == \A w \in Workers : workers[w].at # "call"

====
